---------------------------- MODULE Spec2Model ----------------------------
(***************************************************************************)
(* Model of the critical-apparatus translation engine of AphorismToTEI     *)
(* (package hyppocratic): analysis.references, analysis.footnotes,         *)
(* Footnotes._dictionary / xml_app and Process.main.                       *)
(*                                                                         *)
(* A Python str is a sequence of pieces.  Every character an operation     *)
(* searches for, strips or splits at is a piece of its own; the literal    *)
(* XML fragments the code concatenates are cut into pieces at exactly      *)
(* those characters, so that a search inside generated XML sees what the   *)
(* Python search sees.                                                     *)
(***************************************************************************)
EXTENDS Integers, Sequences, FiniteSets, TLC

(***************************************************************************)
(* Bounds of the model.                                                    *)
(***************************************************************************)
MaxTokens == 4
MaxCursor == 2
MaxWords == 4
MaxCalls == 2
MaxUnits == 3

(***************************************************************************)
(* Python built-ins used by the code.                                      *)
(***************************************************************************)
\* the value None: a piece no text holds
None == <<"None">>

\* a call that has not returned has no value
NoValue == <<"NoValue">>

\* no exception raised
NoExc == "NoExc"

Min(S) == CHOOSE x \in S : \A y \in S : x <= y

Max(S) == CHOOSE x \in S : \A y \in S : x >= y

Digits == <<"0", "1", "2", "3", "4", "5", "6", "7", "8", "9">>

\* str(n) for a non-negative int
RECURSIVE str(_)
str(n) == IF n < 10 THEN <<Digits[n + 1]>>
          ELSE str(n \div 10) \o <<Digits[(n % 10) + 1]>>

IsDigit(c) == \E i \in 1..10 : Digits[i] = c

DigitValue(c) == (CHOOSE i \in 1..10 : Digits[i] = c) - 1

IsSpace(c) == c \in {" ", "\n", "\t"}

\* s[i:i+len(sub)] == sub
MatchAt(s, sub, i) ==
    /\ i >= 1
    /\ i + Len(sub) - 1 <= Len(s)
    /\ \A j \in 1..Len(sub) : s[i + j - 1] = sub[j]

\* s.find(sub) + 1 (0 when absent), sub non-empty
find(s, sub) ==
    LET cand == {i \in 1..Len(s) : MatchAt(s, sub, i)}
    IN  IF cand = {} THEN 0 ELSE Min(cand)

\* s.rfind(sub) + 1 (0 when absent)
rfind(s, sub) ==
    LET cand == {i \in 1..Len(s) : MatchAt(s, sub, i)}
    IN  IF cand = {} THEN 0 ELSE Max(cand)

\* sub in s
contains(s, sub) == find(s, sub) # 0

\* s.partition(sep): <<before, sep, after>>, or <<s, '', ''>>
partition(s, sep) ==
    LET i == find(s, sep)
    IN  IF i = 0 THEN <<s, <<>>, <<>>>>
        ELSE <<SubSeq(s, 1, i - 1), sep, SubSeq(s, i + Len(sep), Len(s))>>

\* s.rpartition(sep): <<before, sep, after>>, or <<'', '', s>>
rpartition(s, sep) ==
    LET i == rfind(s, sep)
    IN  IF i = 0 THEN <<<<>>, <<>>, s>>
        ELSE <<SubSeq(s, 1, i - 1), sep, SubSeq(s, i + Len(sep), Len(s))>>

RECURSIVE lstrip(_)
lstrip(s) == IF s # <<>> /\ IsSpace(Head(s)) THEN lstrip(Tail(s)) ELSE s

RECURSIVE rstrip(_)
rstrip(s) == IF s # <<>> /\ IsSpace(s[Len(s)])
             THEN rstrip(SubSeq(s, 1, Len(s) - 1)) ELSE s

\* s.strip()
strip(s) == rstrip(lstrip(s))

\* s.splitlines(): cut at every line break, no empty last line
RECURSIVE splitlines(_)
splitlines(s) ==
    IF s = <<>> THEN <<>>
    ELSE LET p == partition(s, <<"\n">>)
         IN  <<p[1]>> \o splitlines(p[3])

\* the value of a string of digits
RECURSIVE ParseInt(_)
ParseInt(ds) == IF ds = <<>> THEN 0
                ELSE 10 * ParseInt(SubSeq(ds, 1, Len(ds) - 1))
                     + DigitValue(ds[Len(ds)])

\* int(s) accepts digits with white space around them
IsIntLiteral(s) ==
    /\ strip(s) # <<>>
    /\ \A i \in 1..Len(strip(s)) : IsDigit(strip(s)[i])

\* int(s) for a string int accepts
int(s) == ParseInt(strip(s))

\* s.split(sep) / s.rsplit(sep) without limit: the parts between the sep
RECURSIVE split(_, _)
split(s, sep) ==
    LET p == partition(s, sep)
    IN  IF p[2] = <<>> THEN <<s>> ELSE <<p[1]>> \o split(p[3], sep)

\* s.strip(chars)
RECURSIVE strip_chars(_, _)
strip_chars(s, chars) ==
    IF s # <<>> /\ Head(s) \in chars THEN strip_chars(Tail(s), chars)
    ELSE IF s # <<>> /\ s[Len(s)] \in chars
         THEN strip_chars(SubSeq(s, 1, Len(s) - 1), chars)
         ELSE s

\* s.lstrip(chars)
RECURSIVE lstrip_chars(_, _)
lstrip_chars(s, chars) ==
    IF s # <<>> /\ Head(s) \in chars THEN lstrip_chars(Tail(s), chars) ELSE s

\* s.count(sub) for a sub of one character
count(s, c) == Cardinality({i \in 1..Len(s) : s[i] = c})

\* s.split(): the words between runs of white space
RECURSIVE split_ws(_)
split_ws(s) ==
    LET t == lstrip(s)
        stop == Min({i \in 1..(Len(t) + 1) : i = Len(t) + 1 \/ IsSpace(t[i])})
    IN  IF t = <<>> THEN <<>>
        ELSE <<SubSeq(t, 1, stop - 1)>> \o split_ws(SubSeq(t, stop, Len(t)))

\* sep.join(ss)
RECURSIVE join(_, _)
join(sep, ss) ==
    IF ss = <<>> THEN <<>>
    ELSE IF Len(ss) = 1 THEN ss[1]
    ELSE ss[1] \o sep \o join(sep, Tail(ss))

\* the position a Python index means in a list of n items: a negative
\* index counts from the end
py_pos(n, i) == IF i < 0 THEN n + i ELSE i

\* l[i] for a Python index i that is in range
py_item(l, i) == l[py_pos(Len(l), i) + 1]

\* l[a:b] for Python indices a and b
py_slice(l, a, b) ==
    LET lo == Max({0, Min({Len(l), py_pos(Len(l), a)})})
        hi == Max({0, Min({Len(l), py_pos(Len(l), b)})})
    IN  SubSeq(l, lo + 1, hi)

\* l.index(x), from 0; -1 stands for the ValueError of an absent x
py_index(l, x) ==
    LET cand == {i \in 1..Len(l) : l[i] = x}
    IN  IF cand = {} THEN -1 ELSE Min(cand) - 1

\* s * n
RECURSIVE repeat(_, _)
repeat(s, n) == IF n <= 0 THEN <<>> ELSE s \o repeat(s, n - 1)

\* ''.join(seq of str)
RECURSIVE concat(_)
concat(ss) == IF ss = <<>> THEN <<>> ELSE Head(ss) \o concat(Tail(ss))

\* all sequences over S of length at most n
SeqUpTo(S, n) == UNION {[1..k -> S] : k \in 0..n}

(***************************************************************************)
(* conf.py                                                                 *)
(***************************************************************************)
XML_N_OFFSET == 3

XML_OFFSET_SIZE == 4

XML_OSS == repeat(<<" ">>, XML_OFFSET_SIZE)


(***************************************************************************)
(* State.                                                                  *)
(*   pc, ret, exc : position of the running call, the value it returned    *)
(*                  (NoValue while absent) and the exception it raised     *)
(*   arg          : the arguments the call was made with                   *)
(*   fn_vars      : the local variables of analysis.footnotes              *)
(*   ref_vars     : the local variables of analysis.references             *)
(*   dic_vars     : the attribute footnotes of a Footnotes object and the  *)
(*                  local variables of Footnotes._dictionary               *)
(*   ft_vars      : the Footnote objects: their text footnote, the list    *)
(*                  object each holds as its xml (xml_of), the contents of *)
(*                  the list objects (heap), their d_footnote, and the     *)
(*                  calls made on them so far with what they left          *)
(*   main_vars    : the attributes of a Process object, the attribute      *)
(*                  _xml_app of its Footnotes object, and frame, the       *)
(*                  method of Process that waits for the running call      *)
(*   unit_vars    : the dictionary _aph_com of the Process object, its     *)
(*                  xml_n_offset, and the loop variables k (aph_k) and     *)
(*                  n_com of Process.main                                  *)
(*   epidoc_vars  : a Process object of CommentaryToEpidoc: its n_offset   *)
(*                  and next_footnote_to_find, the files of the folder     *)
(*                  and the one at work (file_i), the parts of its         *)
(*                  document (epidoc_text, epidoc_introduction,            *)
(*                  epidoc_title, epidoc_footnotes), its lists xml_main    *)
(*                  and xml_app (epidoc_xml_main, epidoc_xml_app), and     *)
(*                  the local variables of process_file, _introduction     *)
(*                  and _title (section: the one of them at work,          *)
(*                  section_lines, main_text, next_line_to_process,        *)
(*                  n_aphorism, line, line_ref) and the list xml_app of    *)
(*                  _footnotes (fn_xml_app); the other local variables of  *)
(*                  _footnotes bear the names of those of                  *)
(*                  analysis.footnotes and are kept in fn_vars             *)
(***************************************************************************)
VARIABLES pc, ret, exc, arg,
          string_to_process, next_footnote, xml_main,
          text_before_symbol, next_text_for_xml, base_text,
          line, result, reference, witness, page,
          footnotes, tmp, size, dic, idx,
          frame, _text, _introduction, _title, _footnotes, _next_footnote,
          xml, _xml_app,
          footnote, xml_of, heap, d_footnote, calls,
          _aph_com, aph_k, n_com, xml_n_offset,
          n_offset, next_footnote_to_find, files, file_i, epidoc_text,
          epidoc_introduction, epidoc_title, epidoc_footnotes, section,
          section_lines, main_text, next_line_to_process, epidoc_n_aphorism,
          file_line, line_ref, fn_xml_app, epidoc_xml_main, epidoc_xml_app

ctl_vars == <<pc, ret, exc, arg>>

fn_vars == <<string_to_process, next_footnote, xml_main,
             text_before_symbol, next_text_for_xml, base_text>>

ref_vars == <<line, result, reference, witness, page>>

dic_vars == <<footnotes, tmp, size, dic, idx>>

main_vars == <<frame, _text, _introduction, _title, _footnotes,
               _next_footnote, xml, _xml_app>>

ft_vars == <<footnote, xml_of, heap, d_footnote, calls>>

unit_vars == <<_aph_com, aph_k, n_com, xml_n_offset>>

epidoc_vars == <<n_offset, next_footnote_to_find, files, file_i, epidoc_text,
                epidoc_introduction, epidoc_title, epidoc_footnotes, section,
                section_lines, main_text, next_line_to_process,
                epidoc_n_aphorism, file_line, line_ref, fn_xml_app,
                epidoc_xml_main, epidoc_xml_app>>

vars == <<ctl_vars, fn_vars, ref_vars, dic_vars, main_vars, ft_vars,
         unit_vars,
         epidoc_vars>>

\* what a call of analysis.footnotes leaves alone
fn_others == <<ref_vars, dic_vars, main_vars, ft_vars, unit_vars, epidoc_vars>>

\* what a call of analysis.references leaves alone
ref_others == <<fn_vars, dic_vars, main_vars, ft_vars, unit_vars, epidoc_vars>>

\* what a call of Footnotes._dictionary leaves alone
dic_others == <<fn_vars, ref_vars, main_vars, ft_vars, unit_vars, epidoc_vars>>

\* what Process.main leaves alone outside the calls it makes
main_others == <<fn_vars, ref_vars, ft_vars, unit_vars, epidoc_vars>>

\* what a call on a Footnote object leaves alone
ft_others == <<fn_vars, ref_vars, dic_vars, main_vars, unit_vars, epidoc_vars>>

\* no loop over the aphorisms: a Process object has its xml_n_offset and
\* no dictionary _aph_com yet
unit_idle ==
    /\ _aph_com = <<>>
    /\ aph_k = 0
    /\ n_com = 0
    /\ xml_n_offset = XML_N_OFFSET

epidoc_others == <<ref_vars, dic_vars, main_vars, ft_vars, unit_vars>>

\* no Process object of CommentaryToEpidoc at work
epidoc_idle ==
    /\ n_offset = 0
    /\ next_footnote_to_find = 1
    /\ files = <<>>
    /\ file_i = 0
    /\ epidoc_text = <<>>
    /\ epidoc_introduction = <<>>
    /\ epidoc_title = <<>>
    /\ epidoc_footnotes = [type |-> "NoneType", val |-> None]
    /\ section = "none"
    /\ section_lines = <<>>
    /\ main_text = <<>>
    /\ next_line_to_process = 0
    /\ epidoc_n_aphorism = 0
    /\ file_line = <<>>
    /\ line_ref = <<>>
    /\ fn_xml_app = <<>>
    /\ epidoc_xml_main = <<>>
    /\ epidoc_xml_app = <<>>

\* no Footnote object
ft_idle ==
    /\ footnote = <<>>
    /\ xml_of = <<>>
    /\ heap = <<>>
    /\ d_footnote = <<>>
    /\ calls = <<>>

\* no Process object
main_idle ==
    /\ frame = "none"
    /\ _text = <<>>
    /\ _introduction = <<>>
    /\ _title = <<>>
    /\ _footnotes = <<>>
    /\ _next_footnote = 1
    /\ xml = <<>>
    /\ _xml_app = <<>>

\* no Footnotes object
dic_idle ==
    /\ footnotes = [type |-> "NoneType", val |-> None]
    /\ tmp = <<>>
    /\ size = 0
    /\ dic = <<>>
    /\ idx = 0

\* no call of analysis.references
ref_idle ==
    /\ line = <<>>
    /\ result = <<>>
    /\ reference = <<>>
    /\ witness = <<>>
    /\ page = <<>>

(***************************************************************************)
(* analysis.footnotes(string_to_process, next_footnote)                    *)
(***************************************************************************)
\* mutant: the symbol of the footnote before the expected one
footnote_symbol_previous(n) == <<"*">> \o str(n - 1) \o <<"*">>

\* '*' + str(next_footnote) + '*'
footnote_symbol(n) == <<"*">> \o str(n) \o <<"*">>

\* mutant: the search for '#' starts from the end
flagged_partition_last_hash(before) ==
    LET p == rpartition(before, <<"#">>)
    IN  IF p[2] = <<>> THEN rpartition(before, <<" ">>) ELSE p

\* mutant: a text without '#' and ' ' is flagged as a whole
flagged_partition_whole(before) ==
    LET p == partition(before, <<"#">>)
        q == rpartition(before, <<" ">>)
    IN  IF p[2] # <<>> THEN p
        ELSE IF q[2] # <<>> THEN q ELSE <<<<>>, <<" ">>, before>>

\* the search for the flagged span: at the first '#', else at the last ' '
flagged_partition(before) ==
    LET p == partition(before, <<"#">>)
    IN  IF p[2] = <<>> THEN rpartition(before, <<" ">>) ELSE p

\* the lines appended for unflagged text
text_lines(text) ==
    [i \in 1..Len(splitlines(text)) |->
        repeat(XML_OSS, XML_N_OFFSET) \o strip(splitlines(text)[i])]

\* next_string of the main text for footnote n
app_string(n, base) ==
    <<"<app", " ", "n=\"">> \o str(n) \o
    <<"\"", " ", "type=\"footnote\"", " ", "xml:id=\"begin_fn">> \o str(n) \o
    <<"\"><rdg>">> \o base \o
    <<"</rdg><anchor", " ", "xml:id=\"end_fn">> \o str(n) \o <<"\"/>">>

\* the lines appended for one footnote: next_string line by line, then </app>
app_lines(n, base) ==
    [i \in 1..Len(splitlines(app_string(n, base))) |->
        repeat(XML_OSS, XML_N_OFFSET) \o splitlines(app_string(n, base))[i]]
    \o <<repeat(XML_OSS, XML_N_OFFSET) \o <<"</app>">>>>

\* mutant: the number after the next one
next_number_skip(n) == n + 2

\* next_footnote += 1
next_number(n) == n + 1

fn_idle ==
    /\ string_to_process = <<>>
    /\ next_footnote = 0
    /\ xml_main = <<>>
    /\ text_before_symbol = <<>>
    /\ next_text_for_xml = <<>>
    /\ base_text = <<>>

\* the call: footnotes(line, cursor)
footnotes_enter(text, cursor) ==
    /\ pc = "footnotes"
    /\ ret = NoValue
    /\ exc = NoExc
    /\ arg = [line |-> text, cursor |-> cursor]
    /\ string_to_process = text
    /\ next_footnote = cursor
    /\ xml_main = <<>>
    /\ text_before_symbol = <<>>
    /\ next_text_for_xml = <<>>
    /\ base_text = <<>>

\* one pass of the loop in which the symbol is not found: emit and return
footnotes_no_symbol ==
    \E p \in {partition(string_to_process, footnote_symbol(next_footnote))} :
        /\ pc = "footnotes"
        /\ p[2] = <<>>
        /\ text_before_symbol' = p[1]
        /\ string_to_process' = p[3]
        /\ xml_main' = xml_main \o text_lines(p[1])
        /\ pc' = "returned"
        /\ ret' = <<xml_main', next_footnote>>
        /\ UNCHANGED <<exc, arg, next_footnote, next_text_for_xml, base_text>>
        /\ UNCHANGED fn_others

\* one pass in which the symbol is found but the text before it has no
\* '#' and no ' ': AnalysisException
footnotes_raise ==
    \E p \in {partition(string_to_process, footnote_symbol(next_footnote))} :
    \E q \in {flagged_partition(p[1])} :
        /\ pc = "footnotes"
        /\ p[2] # <<>>
        /\ q[2] = <<>>
        /\ text_before_symbol' = p[1]
        /\ string_to_process' = p[3]
        /\ next_text_for_xml' = q[1]
        /\ base_text' = q[3]
        /\ pc' = "raised"
        /\ exc' = "AnalysisException"
        /\ UNCHANGED <<ret, arg, next_footnote, xml_main>>
        /\ UNCHANGED fn_others

\* mutant: the pass keeps the whole text as the text still to process
footnotes_symbol_keep ==
    \E p \in {partition(string_to_process, footnote_symbol(next_footnote))} :
    \E q \in {flagged_partition(p[1])} :
        /\ pc = "footnotes"
        /\ p[2] # <<>>
        /\ q[2] # <<>>
        /\ text_before_symbol' = p[1]
        /\ string_to_process' = string_to_process
        /\ next_text_for_xml' = q[1]
        /\ base_text' = q[3]
        /\ xml_main' = xml_main \o text_lines(q[1])
                                \o app_lines(next_footnote, q[3])
        /\ next_footnote' = next_number(next_footnote)
        /\ IF p[3] = <<>>
           THEN pc' = "returned" /\ ret' = <<xml_main', next_footnote'>>
           ELSE pc' = "footnotes" /\ ret' = ret
        /\ UNCHANGED <<exc, arg>>
        /\ UNCHANGED fn_others

\* one pass in which the symbol is found and the flagged span determined
footnotes_symbol ==
    \E p \in {partition(string_to_process, footnote_symbol(next_footnote))} :
    \E q \in {flagged_partition(p[1])} :
        /\ pc = "footnotes"
        /\ p[2] # <<>>
        /\ q[2] # <<>>
        /\ text_before_symbol' = p[1]
        /\ string_to_process' = p[3]
        /\ next_text_for_xml' = q[1]
        /\ base_text' = q[3]
        /\ xml_main' = xml_main \o text_lines(q[1])
                                \o app_lines(next_footnote, q[3])
        /\ next_footnote' = next_number(next_footnote)
        /\ IF p[3] = <<>>
           THEN pc' = "returned" /\ ret' = <<xml_main', next_footnote'>>
           ELSE pc' = "footnotes" /\ ret' = ret
        /\ UNCHANGED <<exc, arg>>
        /\ UNCHANGED fn_others

(***************************************************************************)
(* Specification of analysis.footnotes over bounded lines and cursors.     *)
(***************************************************************************)
FnTokens == { <<"a">>, <<" ">>, <<"#">>, <<"*">>, <<"2">>, <<"\n">>,
              <<"*", "1", "*">>, <<"*", "2", "*">> }

FnLines == {concat(ts) : ts \in SeqUpTo(FnTokens, MaxTokens)}

InitFootnotes ==
    /\ \E text \in FnLines, cursor \in 1..MaxCursor :
           footnotes_enter(text, cursor)
    /\ ref_idle
    /\ dic_idle
    /\ main_idle
    /\ ft_idle
    /\ unit_idle
    /\ epidoc_idle

NextFootnotes ==
    \/ footnotes_no_symbol
    \/ footnotes_raise
    \/ footnotes_symbol

SpecFootnotes == InitFootnotes /\ [][NextFootnotes]_vars


(***************************************************************************)
(* analysis.references(line)                                               *)
(***************************************************************************)
\* mutant: witness and location exchanged
locus_string_swapped(wit, loc) ==
    <<"<locus", " ", "target=\"">> \o strip(loc) \o <<"\">">>
    \o strip(wit) \o <<"</locus>">>

\* '<locus target="' + witness.strip() + '">' + page.strip() + '</locus>'
locus_string(wit, loc) ==
    <<"<locus", " ", "target=\"">> \o strip(wit) \o <<"\">">>
    \o strip(loc) \o <<"</locus>">>

\* mutant: a line break after every text, also the last one
text_before_result_always_break(text_before, sep) ==
    IF text_before # <<>> THEN text_before \o <<"\n">> ELSE <<>>

\* what the text before '[' adds to result: the text, and a line break
\* when a reference follows
text_before_result(text_before, sep) ==
    IF text_before # <<>>
    THEN text_before \o (IF sep # <<>> THEN <<"\n">> ELSE <<>>)
    ELSE <<>>

\* mutant: a reference that is not closed runs to the end of the line
close_partition_lenient(text_after) ==
    LET p == partition(text_after, <<"]">>)
    IN  IF p[2] = <<>> THEN <<text_after, <<"]">>, <<>>>> ELSE p

\* text_after.partition(']')
close_partition(text_after) == partition(text_after, <<"]">>)

\* mutant: a reference without space is a witness without location
reference_partition_lenient(ref) ==
    LET p == partition(ref, <<" ">>)
    IN  IF p[2] = <<>> THEN <<ref, <<" ">>, <<>>>> ELSE p

\* reference.partition(' ')
reference_partition(ref) == partition(ref, <<" ">>)

\* the call: references(line)
references_enter(text) ==
    /\ pc = "references_enter"
    /\ ret = NoValue
    /\ exc = NoExc
    /\ arg = [line |-> text]
    /\ line = text
    /\ result = <<>>
    /\ reference = <<>>
    /\ witness = <<>>
    /\ page = <<>>

\* if not line: return
references_check_line ==
    /\ pc = "references_enter"
    /\ IF line = None \/ line = <<>>
       THEN pc' = "returned" /\ ret' = None
       ELSE pc' = "references" /\ ret' = ret
    /\ UNCHANGED <<exc, arg, ref_vars>>
    /\ UNCHANGED ref_others

\* a pass of the loop that finds no '[': the rest is text, return result
references_no_bracket ==
    \E p \in {partition(line, <<"[">>)} :
        /\ pc = "references"
        /\ p[2] = <<>>
        /\ result' = result \o text_before_result(p[1], p[2])
        /\ pc' = "returned"
        /\ ret' = result'
        /\ UNCHANGED <<exc, arg, line, reference, witness, page>>
        /\ UNCHANGED ref_others

\* a pass that finds '[' but no ']' after it: AnalysisException
references_no_close ==
    \E p \in {partition(line, <<"[">>)} :
    \E q \in {close_partition(p[3])} :
        /\ pc = "references"
        /\ p[2] # <<>>
        /\ q[2] = <<>>
        /\ result' = result \o text_before_result(p[1], p[2])
        /\ reference' = q[1]
        /\ line' = q[3]
        /\ pc' = "raised"
        /\ exc' = "AnalysisException"
        /\ UNCHANGED <<ret, arg, witness, page>>
        /\ UNCHANGED ref_others

\* a pass that finds '[..]' without a space inside: AnalysisException
references_no_space ==
    \E p \in {partition(line, <<"[">>)} :
    \E q \in {close_partition(p[3])} :
    \E r \in {reference_partition(q[1])} :
        /\ pc = "references"
        /\ p[2] # <<>>
        /\ q[2] # <<>>
        /\ r[2] = <<>>
        /\ result' = result \o text_before_result(p[1], p[2])
        /\ reference' = q[1]
        /\ line' = q[3]
        /\ witness' = r[1]
        /\ page' = r[3]
        /\ pc' = "raised"
        /\ exc' = "AnalysisException"
        /\ UNCHANGED <<ret, arg>>
        /\ UNCHANGED ref_others

\* a pass that replaces one reference '[W L]' by its locus element
references_locus ==
    \E p \in {partition(line, <<"[">>)} :
    \E q \in {close_partition(p[3])} :
    \E r \in {reference_partition(q[1])} :
        /\ pc = "references"
        /\ p[2] # <<>>
        /\ q[2] # <<>>
        /\ r[2] # <<>>
        /\ reference' = q[1]
        /\ line' = q[3]
        /\ witness' = r[1]
        /\ page' = r[3]
        /\ result' = result \o text_before_result(p[1], p[2])
                            \o locus_string(r[1], r[3])
                            \o (IF q[3] = <<>> THEN <<>> ELSE <<"\n">>)
        /\ IF q[3] = <<>>
           THEN pc' = "returned" /\ ret' = result'
           ELSE pc' = "references" /\ ret' = ret
        /\ UNCHANGED <<exc, arg>>
        /\ UNCHANGED ref_others

(***************************************************************************)
(* Specification of analysis.references over bounded lines.                *)
(***************************************************************************)
RefTokens == { <<"a">>, <<" ">>, <<"[">>, <<"]">>, <<"\n">>,
               <<"[", "W", " ", "1", "]">>, <<"[", "V", " ", "2", "]">> }

RefLines == {concat(ts) : ts \in SeqUpTo(RefTokens, MaxTokens)}

InitReferences ==
    /\ \E text \in RefLines \cup {None} : references_enter(text)
    /\ fn_idle
    /\ dic_idle
    /\ main_idle
    /\ ft_idle
    /\ unit_idle
    /\ epidoc_idle

NextReferences ==
    \/ references_check_line
    \/ references_no_bracket
    \/ references_no_close
    \/ references_no_space
    \/ references_locus

SpecReferences == InitReferences /\ [][NextReferences]_vars

(***************************************************************************)
(* Specification of the two scanning loops run to their end: a call of     *)
(* references or a call of footnotes.  Both are sequential loops without   *)
(* a wait, a lock or input: a pass that can run does run, which is weak    *)
(* fairness of the step.                                                   *)
(***************************************************************************)
\* the pieces of the lines: text, a marker after a space, a marker after
\* a '#', a marker after neither
ScanFnTokens ==
    { <<"a">>, <<" ", "*", "1", "*">>, <<"#", "*", "2", "*">>,
      <<"*", "1", "*">> }

\* the pieces of the lines: text, a reference, an open bracket, a
\* reference without space
ScanRefTokens ==
    { <<"a">>, <<"[", "W", " ", "1", "]">>, <<"[">>, <<"[", "W", "]">> }

InitScans ==
    \/ /\ \E text \in {concat(ts) : ts \in SeqUpTo(ScanFnTokens, MaxTokens)},
             cursor \in 1..MaxCursor : footnotes_enter(text, cursor)
       /\ ref_idle
       /\ dic_idle
       /\ main_idle
       /\ ft_idle
       /\ unit_idle
       /\ epidoc_idle
    \/ /\ \E text \in {concat(ts) : ts \in SeqUpTo(ScanRefTokens, MaxTokens)}
                      \cup {None} : references_enter(text)
       /\ fn_idle
       /\ dic_idle
       /\ main_idle
       /\ ft_idle
       /\ unit_idle
       /\ epidoc_idle

NextScans == NextReferences \/ NextFootnotes

SpecScans == InitScans /\ [][NextScans]_vars /\ WF_vars(NextScans)

(***************************************************************************)
(* Footnotes._dictionary()                                                 *)
(* The attribute footnotes is a value [type, val] of type str, list, dict  *)
(* or int.  An OrderedDict is the sequence of its items [key, value] in    *)
(* insertion order.  tmp, size and dic are the locals _tmp, _size and      *)
(* _dic, idx the position of the loop over the lines.                      *)
(***************************************************************************)
PyStr(v) == [type |-> "str", val |-> v]

PyList(v) == [type |-> "list", val |-> v]

PyDict(v) == [type |-> "dict", val |-> v]

PyInt(v) == [type |-> "int", val |-> v]

\* d[key] = value: a new key is appended, a known key keeps its place
dict_set(d, key, value) ==
    IF \E i \in 1..Len(d) : d[i].key = key
    THEN [i \in 1..Len(d) |->
             IF d[i].key = key THEN [key |-> key, value |-> value] ELSE d[i]]
    ELSE Append(d, [key |-> key, value |-> value])

\* re.findall(str(_size), _tmp[-1])[0] == str(_size): the digits of the
\* number of footnotes occur somewhere in the last line
numeration_agrees(n, last) == contains(last, str(n))

\* mutant: a section without lines passes the check
numeration_check_empty(t, n) == n = 0 \/ numeration_agrees(n, t[n])

\* the check of lines 546-555: _tmp[-1] of an empty list is an IndexError,
\* which the code turns into the same FootnotesException
numeration_check(t, n) == n > 0 /\ numeration_agrees(n, t[n])

\* line.rsplit('*')[1:]
marker_parts(l) == Tail(split(l, <<"*">>))

\* the call: self._dictionary() on a Footnotes object
dictionary_enter(f) ==
    /\ pc = "dictionary"
    /\ ret = NoValue
    /\ exc = NoExc
    /\ arg = [footnotes |-> f]
    /\ footnotes = f
    /\ tmp = <<>>
    /\ size = 0
    /\ dic = <<>>
    /\ idx = 0

\* the lines of the section: of a non-empty str, of a list; a dict is
\* left as it is; anything else is refused
dictionary_lines ==
    /\ pc = "dictionary"
    /\ \/ /\ footnotes.type = "str"
          /\ footnotes.val # <<>>
          /\ tmp' = splitlines(footnotes.val)
          /\ size' = Len(tmp')
          /\ pc' = "dictionary_numeration"
          /\ UNCHANGED <<ret, exc>>
       \/ /\ footnotes.type = "list"
          /\ tmp' = footnotes.val
          /\ size' = Len(tmp')
          /\ pc' = "dictionary_numeration"
          /\ UNCHANGED <<ret, exc>>
       \/ /\ footnotes.type = "dict"
          /\ pc' = "returned"
          /\ ret' = None
          /\ UNCHANGED <<exc, tmp, size>>
       \/ /\ \/ footnotes.type = "str" /\ footnotes.val = <<>>
             \/ footnotes.type \notin {"str", "list", "dict"}
          /\ pc' = "raised"
          /\ exc' = "FootnotesException"
          /\ UNCHANGED <<ret, tmp, size>>
    /\ UNCHANGED <<arg, footnotes, dic, idx>>
    /\ UNCHANGED dic_others

\* the check of the number of footnotes against their numeration
dictionary_numeration ==
    /\ pc = "dictionary_numeration"
    /\ IF numeration_check(tmp, size)
       THEN pc' = "dictionary_loop" /\ idx' = 1 /\ exc' = exc
       ELSE pc' = "raised" /\ exc' = "FootnotesException" /\ idx' = idx
    /\ dic' = <<>>
    /\ UNCHANGED <<ret, arg, footnotes, tmp, size>>
    /\ UNCHANGED dic_others

\* one pass of the loop over the lines: the line is cut at its '*' into
\* key and value and stored, and self.footnotes becomes the dictionary
dictionary_line ==
    /\ pc = "dictionary_loop"
    /\ idx <= size
    /\ LET parts == marker_parts(tmp[idx])
       IN  IF Len(parts) # 2
           THEN /\ pc' = "raised"
                /\ exc' = "FootnotesException"
                /\ UNCHANGED <<dic, footnotes, idx>>
           ELSE IF ~IsIntLiteral(parts[1])
           THEN /\ pc' = "raised"
                /\ exc' = "ValueError"
                /\ UNCHANGED <<dic, footnotes, idx>>
           ELSE /\ dic' = dict_set(dic, int(parts[1]),
                                   strip_chars(parts[2], {".", " "}))
                /\ footnotes' = PyDict(dic')
                /\ idx' = idx + 1
                /\ UNCHANGED <<pc, exc>>
    /\ UNCHANGED <<ret, arg, tmp, size>>
    /\ UNCHANGED dic_others

\* the loop is over: the method returns None
dictionary_return ==
    /\ pc = "dictionary_loop"
    /\ idx > size
    /\ pc' = "returned"
    /\ ret' = None
    /\ UNCHANGED <<exc, arg, footnotes, tmp, size, dic, idx>>
    /\ UNCHANGED dic_others

(***************************************************************************)
(* Specification of Footnotes._dictionary over bounded footnote sections.  *)
(***************************************************************************)
DicTokens == { <<"*", "1", "*">>, <<"*", "2", "*">>, <<"*", "1", "2", "*">>,
               <<"*", "a", "*">>, <<"a">>, <<"2">>, <<".">>, <<"\n">> }

DicTexts == {concat(ts) : ts \in SeqUpTo(DicTokens, MaxTokens)}

DicInputs ==
    {PyStr(t) : t \in DicTexts} \cup {PyList(splitlines(t)) : t \in DicTexts}
    \cup {PyInt(1), PyDict(<<[key |-> 1, value |-> <<"a">>]>>)}

InitDictionary ==
    /\ \E f \in DicInputs : dictionary_enter(f)
    /\ fn_idle
    /\ ref_idle
    /\ main_idle
    /\ ft_idle
    /\ unit_idle
    /\ epidoc_idle

NextDictionary ==
    \/ dictionary_lines
    \/ dictionary_numeration
    \/ dictionary_line
    \/ dictionary_return

SpecDictionary == InitDictionary /\ [][NextDictionary]_vars

(***************************************************************************)
(* Process.main()                                                          *)
(* main runs open_document, divide_document and treat_footnotes; the       *)
(* latter builds the Footnotes object, whose constructor runs _dictionary, *)
(* and calls its xml_app.  frame names the method of Process that waits    *)
(* for the call that is running.                                           *)
(***************************************************************************)
\* the end of the match of r'\s+1\.?\n' that starts at i, 0 without match
numeration_match(s, i) ==
    IF i > Len(s) \/ ~IsSpace(s[i]) THEN 0
    ELSE LET j == Min({k \in i..(Len(s) + 1) :
                          k = Len(s) + 1 \/ ~IsSpace(s[k])})
         IN  IF j > Len(s) \/ s[j] # "1" THEN 0
             ELSE IF MatchAt(s, <<".", "\n">>, j + 1) THEN j + 2
             ELSE IF MatchAt(s, <<"\n">>, j + 1) THEN j + 1
             ELSE 0

\* re.compile(r'\s+1\.?\n').split(s)
RECURSIVE numeration_split(_)
numeration_split(s) ==
    LET cand == {i \in 1..Len(s) : numeration_match(s, i) # 0}
    IN  IF cand = {} THEN <<s>>
        ELSE <<SubSeq(s, 1, Min(cand) - 1)>>
             \o numeration_split(
                    SubSeq(s, numeration_match(s, Min(cand)) + 1, Len(s)))

\* '<app from="#begin_fn' + str(n) + '" to="#end_fn' + str(n) + '">'
app_from_to(n) ==
    <<"<app", " ", "from=\"#begin_fn">> \o str(n)
    \o <<"\"", " ", "to=\"#end_fn">> \o str(n) \o <<"\">">>

\* open_document: the text of the file without the white space around it
main_open_document ==
    /\ pc = "main"
    /\ _text' = strip(arg.text)
    /\ pc' = "main_divide_document"
    /\ UNCHANGED <<ret, exc, arg>>
    /\ UNCHANGED <<frame, _introduction, _title, _footnotes, _next_footnote,
                   xml, _xml_app>>
    /\ UNCHANGED <<dic_vars, main_others>>

\* divide_document: the footnotes from the last '*1*' on, the title and
\* the introduction before '++\n', the title before the numeration '1.'
main_divide_document ==
    /\ pc = "main_divide_document"
    /\ LET footnotes_sep == <<"*", "1", "*">>
           loc_footnotes == rfind(_text, footnotes_sep)
           text1 == SubSeq(_text, 1, loc_footnotes - 1)
           parts == split(text1, <<"+", "+", "\n">>)
           title2 == IF Len(parts) = 3 THEN strip(parts[1]) ELSE _title
           intro2 == IF Len(parts) = 3 THEN strip(parts[2])
                     ELSE IF Len(parts) = 2 THEN strip(parts[1])
                     ELSE _introduction
           text2 == IF Len(parts) = 3 THEN strip(parts[3])
                    ELSE IF Len(parts) = 2 THEN strip(parts[2])
                    ELSE text1
           cut == numeration_split(text2)
       IN  IF loc_footnotes = find(_text, footnotes_sep)
           THEN /\ _footnotes' = <<>>
                /\ pc' = "raised"
                /\ exc' = "AphorismsToXMLException"
                /\ UNCHANGED <<_text, _introduction, _title>>
           ELSE /\ _footnotes' = strip(SubSeq(_text, loc_footnotes, Len(_text)))
                /\ _introduction' = intro2
                /\ IF title2 # <<>>
                   THEN /\ _title' = title2
                        /\ _text' = text2
                        /\ pc' = "main_treat_footnotes"
                        /\ exc' = exc
                   ELSE IF Len(cut) = 2
                   THEN /\ _title' = cut[1]
                        /\ _text' = <<"1", ".", "\n">> \o cut[2]
                        /\ pc' = "main_treat_footnotes"
                        /\ exc' = exc
                   ELSE /\ _title' = title2
                        /\ _text' = text2
                        /\ pc' = "raised"
                        /\ exc' = "AphorismsToXMLException"
    /\ UNCHANGED <<ret, arg, frame, _next_footnote, xml, _xml_app>>
    /\ UNCHANGED <<dic_vars, main_others>>

\* treat_footnotes: Footnotes(self._footnotes) keeps the section and calls
\* _dictionary on it; without a section, main goes on to save the app XML
\* of the Footnotes object it does not have
main_treat_footnotes ==
    /\ pc = "main_treat_footnotes"
    /\ IF _footnotes # <<>>
       THEN /\ footnotes' = PyStr(_footnotes)
            /\ frame' = "treat_footnotes"
            /\ pc' = "dictionary"
            /\ exc' = exc
       ELSE /\ pc' = "raised"
            /\ exc' = "AttributeError"
            /\ UNCHANGED <<footnotes, frame>>
    /\ tmp' = <<>>
    /\ size' = 0
    /\ dic' = <<>>
    /\ idx' = 0
    /\ UNCHANGED <<ret, arg>>
    /\ UNCHANGED <<_text, _introduction, _title, _footnotes, _next_footnote,
                   xml, _xml_app>>
    /\ UNCHANGED main_others

\* _dictionary has returned to the constructor of Footnotes, which sets
\* _xml_app = []; treat_footnotes calls xml_app, whose first pass appends
\* the opening of the first footnote and calls self.debug, which no
\* Footnotes object has
main_xml_app ==
    /\ pc = "returned"
    /\ frame = "treat_footnotes"
    /\ IF footnotes.val = <<>>
       THEN /\ _xml_app' = <<>>
            /\ pc' = "main_save_xml_app"
            /\ exc' = exc
       ELSE /\ _xml_app' = <<app_from_to(footnotes.val[1].key)>>
            /\ pc' = "raised"
            /\ exc' = "AttributeError"
    /\ ret' = NoValue
    /\ UNCHANGED <<arg, frame, _text, _introduction, _title, _footnotes,
                   _next_footnote, xml>>
    /\ UNCHANGED <<dic_vars, main_others>>

(***************************************************************************)
(* Specification of Process.main over bounded documents: an optional       *)
(* introduction, a title, the numeration of the first aphorism, the        *)
(* aphorism with its commentary, and the footnote section.                 *)
(***************************************************************************)
\* the introduction and its separator
DocIntroductions ==
    { <<>>,
      <<"i", " ", "#", "j", "*", "1", "*", "\n", "+", "+", "\n">> }

\* the title
DocTitles ==
    { <<"T">>,
      <<"T", " ", "#", "t", "*", "1", "*">>,
      <<"T", " ", "#", "t", "*", "2", "*">> }

\* the numeration of the first aphorism
DocNumerations ==
    { <<"\n", "1", ".", "\n">>,
      <<"\n", "1", "\n">>,
      <<"\n">> }

\* the aphorism and its commentary
DocAphorisms ==
    { <<"a">>,
      <<"a", " ", "#", "b", "*", "1", "*", "\n", "c">>,
      <<"a", " ", "#", "b", "*", "2", "*", "\n", "c", " ", "#", "d", "*", "3", "*">>,
      <<"a", " ", "#", "b", "*", "3", "*">> }

\* the footnote section
DocFootnotes ==
    { <<>>,
      <<"\n", "*", "1", "*", "x">>,
      <<"\n", "*", "1", "*", "x", "\n", "*", "2", "*", "y">>,
      <<"\n", "*", "1", "*", "x", "\n", "*", "2", "*", "y", "\n", "*", "3", "*", "z">>,
      <<"\n", "*", "2", "*", "x", "\n", "*", "3", "*", "y">>,
      <<"\n">> \o <<"*", "1", "*", "t", " ", "]", " ", "V", ":", " ", "c", " ", "W", ".">>,
      <<"\n">> \o <<"*", "1", "*", "t", " ", "]", " ", "V", ":", " ", "c", " ", "W", ".">> \o <<"\n">>
          \o <<"*", "2", "*", "t", " ", "]", " ", "V", ":", " ", "o", "m", ".", " ", "W", ".">> }

Documents ==
    {i \o t \o n \o a \o f :
        i \in DocIntroductions, t \in DocTitles, n \in DocNumerations,
        a \in DocAphorisms, f \in DocFootnotes}

\* Process(fname).main() on a file that holds the document
main_enter(text) ==
    /\ pc = "main"
    /\ ret = NoValue
    /\ exc = NoExc
    /\ arg = [text |-> text]
    /\ frame = "main"
    /\ _text = <<>>
    /\ _introduction = <<>>
    /\ _title = <<>>
    /\ _footnotes = <<>>
    /\ _next_footnote = 1
    /\ xml = <<>>
    /\ _xml_app = <<>>

InitMain ==
    /\ \E text \in Documents : main_enter(text)
    /\ fn_idle
    /\ ref_idle
    /\ dic_idle
    /\ ft_idle
    /\ unit_idle
    /\ epidoc_idle

NextMain ==
    \/ main_open_document
    \/ main_divide_document
    \/ main_treat_footnotes
    \/ dictionary_lines
    \/ dictionary_numeration
    \/ dictionary_line
    \/ dictionary_return
    \/ main_xml_app

SpecMain == InitMain /\ [][NextMain]_vars

(***************************************************************************)
(* Process.main(): the dictionary of the aphorisms and the loop over it.   *)
(* The loop is entered as main enters it after the title, with the cursor  *)
(* _next_footnote and the list xml; xml holds here the lines of the        *)
(* aphorisms only.  The calls of references and footnotes run as the       *)
(* steps of the two functions; frame names the place of main that waits    *)
(* for them.                                                               *)
(***************************************************************************)
\* [s.strip() for s in aph.split('\n') if len(s) != 0]
aphorism_lines(aph) ==
    LET parts == SelectSeq(split(aph, <<"\n">>), LAMBDA l : Len(l) # 0)
    IN  [i \in 1..Len(parts) |-> strip(parts[i])]

\* self._aph_com[key]
aph_com_item(key) ==
    _aph_com[CHOOSE i \in 1..Len(_aph_com) : _aph_com[i].key = key].value

\* self.xml_oss * n + tag
offset_line(n, tag) == repeat(XML_OSS, n) \o tag

\* the call references(text)
call_references(text) ==
    /\ pc' = "references_enter"
    /\ ret' = NoValue
    /\ line' = text
    /\ result' = <<>>
    /\ reference' = <<>>
    /\ witness' = <<>>
    /\ page' = <<>>

\* the call footnotes(text, self._next_footnote)
call_footnotes(text) ==
    /\ pc' = "footnotes"
    /\ ret' = NoValue
    /\ string_to_process' = text
    /\ next_footnote' = _next_footnote
    /\ xml_main' = <<>>
    /\ text_before_symbol' = <<>>
    /\ next_text_for_xml' = <<>>
    /\ base_text' = <<>>

\* 'for k in self._aph_com' goes on: the next key, or after the last one
\* save_xml and the end of main
next_aphorism ==
    LET i == CHOOSE j \in 1..Len(_aph_com) : _aph_com[j].key = aph_k
    IN  IF i < Len(_aph_com)
        THEN aph_k' = _aph_com[i + 1].key /\ pc' = "main_unit"
        ELSE aph_k' = aph_k /\ pc' = "done"

\* aphorisms_dict: the lines of every aphorism under its number
main_aphorisms_dict ==
    /\ pc = "main_aphorisms_dict"
    /\ _aph_com' = [i \in 1..Len(arg.aphorism) |->
                       [key |-> arg.n_aphorism[i],
                        value |-> aphorism_lines(arg.aphorism[i])]]
    /\ aph_k' = arg.n_aphorism[1]
    /\ pc' = "main_unit"
    /\ UNCHANGED <<ret, exc, arg, n_com, xml_n_offset>>
    /\ UNCHANGED <<fn_vars, ref_vars, dic_vars, main_vars, ft_vars,
                   epidoc_vars>>

\* the head of the loop: the first line of the unit is the aphorism, the
\* openings of the unit, the aphorism and its paragraph, and the call of
\* references on the aphorism
main_unit ==
    /\ pc = "main_unit"
    /\ IF aph_com_item(aph_k) = <<>>
       THEN /\ pc' = "raised"
            /\ exc' = "IndexError"
            /\ UNCHANGED <<ret, ref_vars, xml, frame>>
       ELSE /\ xml' = xml \o
                <<offset_line(xml_n_offset,
                      <<"<div", " ", "n=\"">> \o str(aph_k) \o
                      <<"\"", " ", "type=\"aphorism_commentary_unit\">">>),
                  offset_line(xml_n_offset + 1,
                      <<"<div", " ", "type=\"aphorism\">">>),
                  offset_line(xml_n_offset + 2, <<"<p>">>)>>
            /\ call_references(aph_com_item(aph_k)[1])
            /\ frame' = "aphorism_references"
            /\ exc' = exc
    /\ UNCHANGED <<arg, _text, _introduction, _title, _footnotes,
                   _next_footnote, _xml_app>>
    /\ UNCHANGED <<fn_vars, dic_vars, ft_vars, unit_vars, epidoc_vars>>

\* references has ended on the aphorism: its exception ends main, without
\* a text the loop goes on to the next unit, else footnotes is called
main_aphorism_references ==
    /\ frame = "aphorism_references"
    /\ pc \in {"returned", "raised"}
    /\ IF pc = "raised"
       THEN /\ exc' = "AphorismsToXMLException"
            /\ frame' = "main"
            /\ UNCHANGED <<pc, ret, fn_vars, unit_vars>>
       ELSE IF ret = None \/ ret = <<>>
       THEN /\ next_aphorism
            /\ frame' = "main"
            /\ UNCHANGED <<ret, exc, fn_vars, _aph_com, n_com, xml_n_offset>>
       ELSE /\ xml_n_offset' = xml_n_offset + 3
            /\ call_footnotes(ret)
            /\ frame' = "aphorism_footnotes"
            /\ UNCHANGED <<exc, _aph_com, aph_k, n_com>>
    /\ UNCHANGED <<arg, _text, _introduction, _title, _footnotes,
                   _next_footnote, xml, _xml_app>>
    /\ UNCHANGED <<ref_vars, dic_vars, ft_vars, epidoc_vars>>

\* footnotes has ended on the aphorism: its exception ends main, else the
\* lines are added, the aphorism closed and the commentaries begin
main_aphorism_footnotes ==
    /\ frame = "aphorism_footnotes"
    /\ pc \in {"returned", "raised"}
    /\ frame' = "main"
    /\ IF pc = "raised"
       THEN /\ exc' = "AphorismsToXMLException"
            /\ UNCHANGED <<pc, ret, _next_footnote, xml, unit_vars>>
       ELSE /\ xml_n_offset' = xml_n_offset - 3
            /\ _next_footnote' = ret[2]
            /\ xml' = xml \o ret[1] \o
                <<offset_line(xml_n_offset' + 2, <<"</p>">>),
                  offset_line(xml_n_offset' + 1, <<"</div>">>)>>
            /\ n_com' = 0
            /\ pc' = IF Len(aph_com_item(aph_k)) > 1
                     THEN "main_commentary" ELSE "main_unit_close"
            /\ UNCHANGED <<ret, exc, _aph_com, aph_k>>
    /\ UNCHANGED <<arg, _text, _introduction, _title, _footnotes, _xml_app>>
    /\ UNCHANGED <<fn_vars, ref_vars, dic_vars, ft_vars, epidoc_vars>>

\* commentary n_com of the unit: a space before the line, the openings of
\* the commentary and its paragraph, and the call of references
main_commentary ==
    /\ pc = "main_commentary"
    /\ xml' = xml \o
           <<offset_line(xml_n_offset + 1,
                 <<"<div", " ", "type=\"commentary\">">>),
             offset_line(xml_n_offset + 2, <<"<p>">>)>>
    /\ call_references(<<" ">> \o aph_com_item(aph_k)[n_com + 2])
    /\ frame' = "commentary_references"
    /\ UNCHANGED <<exc, arg, _text, _introduction, _title, _footnotes,
                   _next_footnote, _xml_app>>
    /\ UNCHANGED <<fn_vars, dic_vars, ft_vars, unit_vars, epidoc_vars>>

\* references has ended on the commentary: its exception ends main, else
\* footnotes is called
main_commentary_references ==
    /\ frame = "commentary_references"
    /\ pc \in {"returned", "raised"}
    /\ IF pc = "raised"
       THEN /\ exc' = "AphorismsToXMLException"
            /\ frame' = "main"
            /\ UNCHANGED <<pc, ret, fn_vars, unit_vars>>
       ELSE /\ xml_n_offset' = xml_n_offset + 3
            /\ call_footnotes(ret)
            /\ frame' = "commentary_footnotes"
            /\ UNCHANGED <<exc, _aph_com, aph_k, n_com>>
    /\ UNCHANGED <<arg, _text, _introduction, _title, _footnotes,
                   _next_footnote, xml, _xml_app>>
    /\ UNCHANGED <<ref_vars, dic_vars, ft_vars, epidoc_vars>>

\* footnotes has ended on the commentary: its exception ends main, else
\* the lines are added, the commentary closed and the next one begins
main_commentary_footnotes ==
    /\ frame = "commentary_footnotes"
    /\ pc \in {"returned", "raised"}
    /\ frame' = "main"
    /\ IF pc = "raised"
       THEN /\ exc' = "AphorismsToXMLException"
            /\ UNCHANGED <<pc, ret, _next_footnote, xml, unit_vars>>
       ELSE /\ xml_n_offset' = xml_n_offset - 3
            /\ _next_footnote' = ret[2]
            /\ xml' = xml \o ret[1] \o
                <<offset_line(xml_n_offset' + 2, <<"</p>">>),
                  offset_line(xml_n_offset' + 1, <<"</div>">>)>>
            /\ n_com' = n_com + 1
            /\ pc' = IF n_com' + 1 < Len(aph_com_item(aph_k))
                     THEN "main_commentary" ELSE "main_unit_close"
            /\ UNCHANGED <<ret, exc, _aph_com, aph_k>>
    /\ UNCHANGED <<arg, _text, _introduction, _title, _footnotes, _xml_app>>
    /\ UNCHANGED <<fn_vars, ref_vars, dic_vars, ft_vars, epidoc_vars>>

\* the unit is closed and the loop goes on
main_unit_close ==
    /\ pc = "main_unit_close"
    /\ xml' = xml \o <<offset_line(xml_n_offset, <<"</div>">>)>>
    /\ next_aphorism
    /\ UNCHANGED <<ret, exc, arg, frame, _text, _introduction, _title,
                   _footnotes, _next_footnote, _xml_app>>
    /\ UNCHANGED <<_aph_com, n_com, xml_n_offset>>
    /\ UNCHANGED <<fn_vars, ref_vars, dic_vars, ft_vars, epidoc_vars>>

(***************************************************************************)
(* Specification of the loop of Process.main over up to MaxUnits           *)
(* aphorisms numbered from 1, each the text between two numerations.       *)
(***************************************************************************)
\* an aphorism and a commentary: plain, with a footnote and a reference, with
\* an aphorism of white space, with a reference not closed, with a
\* reference without space, with a marker glued to its word, without any
\* line, with an empty line and a footnote in the commentary
UnitTexts ==
    { <<"a", "\n", "c", ".">>,
      <<"a", " ", "#", "b", "*", "1", "*", "\n", "c", " ", "[", "W", " ", "1", "]", " ", "d", ".">>,
      <<" ", "\n", "c", ".">>,
      <<"a", " ", "[", "W", "\n", "c", ".">>,
      <<"a", "\n", "c", " ", "[", "W", "]", ".">>,
      <<"a", "*", "1", "*">>,
      <<>>,
      <<"a", "\n", "\n", "c", " ", "#", "d", "*", "2", "*", ".">> }

\* main at 'self.aphorisms_dict()', with the texts aphorism and their
\* numbers n_aphorism that the numerations of the text gave
units_enter(aphorism, cursor) ==
    /\ pc = "main_aphorisms_dict"
    /\ ret = NoValue
    /\ exc = NoExc
    /\ arg = [aphorism |-> aphorism,
              n_aphorism |-> [i \in 1..Len(aphorism) |-> i],
              cursor |-> cursor]
    /\ frame = "main"
    /\ _text = <<>>
    /\ _introduction = <<>>
    /\ _title = <<"T">>
    /\ _footnotes = <<>>
    /\ _next_footnote = cursor
    /\ xml = <<>>
    /\ _xml_app = <<>>
    /\ unit_idle

InitUnits ==
    /\ \E aphorism \in SeqUpTo(UnitTexts, MaxUnits) \ {<<>>},
          cursor \in 1..MaxCursor : units_enter(aphorism, cursor)
    /\ fn_idle
    /\ ref_idle
    /\ dic_idle
    /\ ft_idle
    /\ epidoc_idle

NextUnits ==
    \/ main_aphorisms_dict
    \/ main_unit
    \/ main_aphorism_references
    \/ main_aphorism_footnotes
    \/ main_commentary
    \/ main_commentary_references
    \/ main_commentary_footnotes
    \/ main_unit_close
    \/ NextReferences
    \/ NextFootnotes

SpecUnits == InitUnits /\ [][NextUnits]_vars

(***************************************************************************)
(* Footnote: omission(), correction(reason) and the dispatch between them  *)
(* A footnote text is the sequence of its characters.  d_footnote is the   *)
(* dict of the object: <<>> when empty, else a record of its items.        *)
(***************************************************************************)
correxi == <<"c", "o", "r", "r", "e", "x", "i">>

conieci == <<"c", "o", "n", "i", "e", "c", "i">>

add == <<"a", "d", "d">>

standard == <<"s", "t", "a", "n", "d", "a", "r", "d">>

omission == <<"o", "m", "i", "s", "s", "i", "o", "n">>

\* mutant: 'add.' is looked for before 'om.'
grammar_add_first(footnote_line) ==
    IF contains(footnote_line, <<"a", "d", "d", ".">>) THEN add
    ELSE IF contains(footnote_line, <<"o", "m", ".">>) THEN omission
    ELSE IF contains(footnote_line, correxi) THEN correxi
    ELSE IF contains(footnote_line, conieci) THEN conieci
    ELSE standard

\* the chain of tests that selects the method for a footnote: omission()
\* or correction() with one of its four reasons
grammar(footnote_line) ==
    IF contains(footnote_line, <<"o", "m", ".">>) THEN omission
    ELSE IF contains(footnote_line, <<"a", "d", "d", ".">>) THEN add
    ELSE IF contains(footnote_line, correxi) THEN correxi
    ELSE IF contains(footnote_line, conieci) THEN conieci
    ELSE standard

\* Hyppocratic.note_xml: self.xml.append(self.xml_oss + '<note>' + note
\* + '</note>')
note_xml(x, note) == Append(x, XML_OSS \o <<"<note>">> \o note \o <<"</note>">>)

\* the five lines '<rdg>', '<choice>', '<corr..>text</corr>', '</choice>',
\* '</rdg>' of the editor's correction
choice_block(corr_tag, text) ==
    << XML_OSS \o <<"<rdg>">>,
       repeat(XML_OSS, 2) \o <<"<choice>">>,
       repeat(XML_OSS, 3) \o corr_tag \o text \o <<"</corr>">>,
       repeat(XML_OSS, 2) \o <<"</choice>">>,
       XML_OSS \o <<"</rdg>">> >>

\* '<corr>' for correxi, '<corr type="conjecture">' for conieci
corr_tag(reason) ==
    IF reason = conieci THEN <<"<corr", " ", "type=\"conjecture\">">>
    ELSE <<"<corr>">>

(***************************************************************************)
(* Footnote.omission()                                                     *)
(***************************************************************************)
\* mutant: the witnesses of the form 'W1: om. W2' in the other order
omission_three_words_swapped(text, w) ==
    IF w[1] = correxi \o <<":">> \/ w[1] = conieci \o <<":">>
    THEN [reason |-> strip_chars(w[1], {":"}), text |-> text,
          witnesses |-> <<w[3], None>>, corrections |-> None,
          omission |-> <<omission, None>>]
    ELSE [reason |-> None, text |-> text,
          witnesses |-> <<w[3], strip_chars(w[1], {":"})>>,
          corrections |-> None,
          omission |-> <<None, omission>>]

\* three words after ']': 'correxi: om. W1', 'conieci: om. W1' or
\* 'W1: om. W2'
omission_three_words(text, w) ==
    IF w[1] = correxi \o <<":">> \/ w[1] = conieci \o <<":">>
    THEN [reason |-> strip_chars(w[1], {":"}), text |-> text,
          witnesses |-> <<w[3], None>>, corrections |-> None,
          omission |-> <<omission, None>>]
    ELSE [reason |-> None, text |-> text,
          witnesses |-> <<strip_chars(w[1], {":"}), w[3]>>,
          corrections |-> None,
          omission |-> <<None, omission>>]

\* four words after ']': 'correxi: om. W1, W2'
omission_four_words(text, w) ==
    [reason |-> strip(strip_chars(w[1], {":"})), text |-> text,
     witnesses |-> <<strip_chars(w[3], {","}), w[4]>>,
     corrections |-> None,
     omission |-> <<omission, omission>>]

\* mutant: the words of the correction joined without the space
omission_more_words_glued(text, w, om_index) ==
    [reason |-> strip(strip_chars(w[1], {":"})), text |-> text,
     witnesses |-> <<strip(strip_chars(py_item(w, om_index - 1), {":"})),
                     w[Len(w)]>>,
     corrections |-> join(<<>>, py_slice(w, 1, om_index - 1)),
     omission |-> <<None, omission>>]

\* any other number of words: 'correxi: tttt W1: om. W2', om_index the
\* place of the word 'om.'
omission_more_words(text, w, om_index) ==
    [reason |-> strip(strip_chars(w[1], {":"})), text |-> text,
     witnesses |-> <<strip(strip_chars(py_item(w, om_index - 1), {":"})),
                     w[Len(w)]>>,
     corrections |-> join(<<" ">>, py_slice(w, 1, om_index - 1)),
     omission |-> <<None, omission>>]

\* the reading of witness number i (from 0) of an omission
omission_rdg(d, i) ==
    XML_OSS \o <<"<rdg", " ", "wit=\"#">> \o d.witnesses[i + 1] \o <<"\">">>
    \o (IF d.omission[i + 1] # None
        THEN <<"\n">> \o repeat(XML_OSS, 2)
             \o <<"<gap", " ", "reason=\"omission\"/>">>
        ELSE <<>>)
    \o (IF i = 0 /\ d.text # None
        THEN d.text \o <<"</rdg>">>
        ELSE <<"\n">> \o XML_OSS \o <<"</rdg>">>)

\* the readings of the witnesses that are not None
omission_rdgs(d) ==
    (IF d.witnesses[1] # None THEN <<omission_rdg(d, 0)>> ELSE <<>>)
    \o (IF d.witnesses[2] # None THEN <<omission_rdg(d, 1)>> ELSE <<>>)

\* _omission_xml on the dict d and the list x: the exception, the list and
\* the dict it leaves
omission_xml(fn, d, x) ==
    IF "reason" \notin DOMAIN d
    THEN [exc |-> "KeyError", xml |-> x, d |-> d]
    ELSE IF d.reason = correxi \/ d.reason = conieci
    THEN IF d.text = None
         THEN [exc |-> "TypeError",
               xml |-> x \o SubSeq(choice_block(<<>>, <<>>), 1, 2), d |-> d]
         ELSE LET d2 == [d EXCEPT !.text = d.corrections]
              IN  [exc |-> NoExc,
                   xml |-> x \o choice_block(corr_tag(d.reason), d.text)
                             \o omission_rdgs(d2),
                   d |-> d2]
    ELSE IF d.reason # None
    THEN [exc |-> NoExc, xml |-> note_xml(x, fn), d |-> d]
    ELSE [exc |-> NoExc, xml |-> x \o omission_rdgs(d), d |-> d]

\* omission() on the text fn of an object with dict d and list x
omission_call(fn, d, x) ==
    LET parts == split(fn, <<"]">>)
        text == strip(parts[1])
        w == split(strip(parts[2]), <<" ">>)
        om_index == py_index(w, <<"o", "m", ".">>)
    IN  IF Len(parts) # 2
        THEN omission_xml(fn, d, note_xml(x, fn))
        ELSE IF Len(w) = 3
        THEN omission_xml(fn, omission_three_words(text, w), x)
        ELSE IF Len(w) = 4
        THEN omission_xml(fn, omission_four_words(text, w), x)
        ELSE IF om_index = -1
        THEN [exc |-> NoExc, xml |-> x, d |-> [note |-> fn]]
        ELSE omission_xml(fn, omission_more_words(text, w, om_index), x)

(***************************************************************************)
(* Footnote.correction(reason)                                             *)
(***************************************************************************)
\* the text after ']' and after the connective of the reason: _tmp[1] of
\* the split at 'correxi:', 'conieci:' or 'add.', stripped; for 'standard'
\* the text after ']' as it is.  <<FALSE>> stands for the IndexError of a
\* split with one part.
correction_rest(fn, reason) ==
    LET parts == split(fn, <<"]">>)
        cut == IF reason = add THEN split(parts[2], <<"a", "d", "d", ".">>)
               ELSE split(parts[2], reason \o <<":">>)
    IN  IF Len(parts) < 2 THEN <<FALSE>>
        ELSE IF reason \in {correxi, conieci, add}
        THEN IF Len(cut) < 2 THEN <<FALSE>> ELSE <<TRUE, strip(cut[2])>>
        ELSE <<TRUE, parts[2]>>

\* mutant: the witnesses after a ',' are left out
correction_group_single(c) ==
    LET d1 == split(c, <<",">>)
        e1 == split_ws(d1[1])
    IN  [corr |-> join(<<" ">>, py_slice(e1, 0, -1)),
         wits |-> <<e1[Len(e1)]>>]

\* one group 'text W1, W2': the words before the last one are the text,
\* the last word and what follows each ',' are the witnesses
correction_group(c) ==
    LET d1 == split(c, <<",">>)
        e1 == split_ws(d1[1])
    IN  [corr |-> join(<<" ">>, py_slice(e1, 0, -1)),
         wits |-> <<e1[Len(e1)]>> \o Tail(d1)]

\* the group has a word: without one, e1[-1] is an IndexError
has_word(c) == split_ws(split(c, <<",">>)[1]) # <<>>

\* mutant: the first reading of a standard variation keeps its own text
correction_d_own_text(fn, reason, rest) ==
    LET text == strip(split(fn, <<"]">>)[1])
        c1 == split(rest, <<":">>)
        g1 == correction_group(c1[1])
        g2 == IF Len(c1) >= 2 /\ has_word(c1[2])
              THEN correction_group(c1[2])
              ELSE [corr |-> <<>>, wits |-> <<>>]
    IN  [reason |-> reason, text |-> text,
         witnesses |-> <<g1.wits, g2.wits>>,
         corrections |-> <<g1.corr, g2.corr>>]

\* the dict of a correction: the groups before and after the first ':'
correction_d(fn, reason, rest) ==
    LET text == strip(split(fn, <<"]">>)[1])
        c1 == split(rest, <<":">>)
        g1 == correction_group(c1[1])
        g2 == IF Len(c1) >= 2 /\ has_word(c1[2])
              THEN correction_group(c1[2])
              ELSE [corr |-> <<>>, wits |-> <<>>]
    IN  [reason |-> reason, text |-> text,
         witnesses |-> <<g1.wits, g2.wits>>,
         corrections |-> <<IF reason = standard THEN text ELSE g1.corr,
                           g2.corr>>]

\* mutant: the addition inside the reading on one line, without the
\* closing of the reading
add_block_open(w, corr) ==
    << XML_OSS \o <<"<rdg", " ", "wit=\"#">> \o strip(w) \o <<"\">">>,
       repeat(XML_OSS, 2) \o <<"<add", " ", "reason=\"add_scribe\">">>
           \o corr \o <<"</add>">> >>

\* the three lines of the addition of one witness
add_block(w, corr) ==
    << XML_OSS \o <<"<rdg", " ", "wit=\"#">> \o strip(w) \o <<"\">">>,
       repeat(XML_OSS, 2) \o <<"<add", " ", "reason=\"add_scribe\">">>
           \o corr \o <<"</add>">>,
       XML_OSS \o <<"</rdg>">> >>

\* the line of the reading of one witness
correction_rdg(w, corr) ==
    XML_OSS \o <<"<rdg", " ", "wit=\"#">> \o strip(w) \o <<"\">">>
    \o corr \o <<"</rdg>">>

\* the blocks of the witnesses wits, which all read corr
RECURSIVE add_blocks(_, _)
add_blocks(wits, corr) ==
    IF wits = <<>> THEN <<>>
    ELSE add_block(Head(wits), corr) \o add_blocks(Tail(wits), corr)

\* _correction_xml on the dict d and the list x
correction_xml(d, x) ==
    IF "reason" \notin DOMAIN d
    THEN [exc |-> "KeyError", xml |-> x, d |-> d]
    ELSE IF d.reason = add
    THEN [exc |-> NoExc,
          xml |-> x \o add_blocks(d.witnesses[1], d.corrections[1])
                    \o add_blocks(d.witnesses[2], d.corrections[2]),
          d |-> d]
    ELSE [exc |-> NoExc,
          xml |-> x
              \o (IF d.reason = correxi \/ d.reason = conieci
                  THEN choice_block(corr_tag(d.reason), d.text) ELSE <<>>)
              \o [i \in 1..Len(d.witnesses[1]) |->
                     correction_rdg(d.witnesses[1][i], d.corrections[1])]
              \o [i \in 1..Len(d.witnesses[2]) |->
                     correction_rdg(d.witnesses[2][i], d.corrections[2])],
          d |-> d]

\* correction(reason) on the text fn of an object with dict d and list x
correction_call(fn, reason, d, x) ==
    LET rest == correction_rest(fn, reason)
    IN  IF ~rest[1] \/ ~has_word(split(rest[2], <<":">>)[1])
        THEN correction_xml(d, note_xml(x, fn))
        ELSE correction_xml(correction_d(fn, reason, rest[2]), x)

(***************************************************************************)
(* Footnote objects at work: every object holds the same text; a call      *)
(* runs the method the chain of tests selects for the text, on one of the  *)
(* objects, and is recorded with what it left: the exception, the lines    *)
(* it appended, the list self.xml and the dict self.d_footnote.            *)
(***************************************************************************)
\* the method has run on object o with the result r
called(o, method, r) ==
    /\ heap' = [heap EXCEPT ![xml_of[o]] = r.xml]
    /\ d_footnote' = [d_footnote EXCEPT ![o] = r.d]
    /\ calls' = Append(calls,
          [obj |-> o,
           method |-> method,
           exc |-> r.exc,
           appended |-> SubSeq(r.xml, Len(heap[xml_of[o]]) + 1, Len(r.xml)),
           xml |-> r.xml,
           d_footnote |-> r.d])
    /\ exc' = r.exc
    /\ UNCHANGED <<pc, ret, arg, footnote, xml_of>>
    /\ UNCHANGED ft_others

\* ft.omission()
Footnote_omission(o) ==
    /\ pc = "Footnote"
    /\ Len(calls) < arg.calls
    /\ grammar(footnote) = omission
    /\ called(o, omission,
              omission_call(footnote, d_footnote[o], heap[xml_of[o]]))

\* ft.correction(reason)
Footnote_correction(o, reason) ==
    /\ pc = "Footnote"
    /\ Len(calls) < arg.calls
    /\ grammar(footnote) = reason
    /\ called(o, reason,
              correction_call(footnote, reason, d_footnote[o],
                              heap[xml_of[o]]))

\* the objects exist: Footnote(footnote, n, xml) for each reference of
\* refs, "default" being the list of the default argument xml=[]
footnote_enter(text, refs, n) ==
    /\ pc = "Footnote"
    /\ ret = NoValue
    /\ exc = NoExc
    /\ arg = [footnote |-> text, xml |-> refs, calls |-> n]
    /\ footnote = text
    /\ xml_of = refs
    /\ heap = [r \in {"default", "list1", "list2"} |-> <<>>]
    /\ d_footnote = [o \in 1..Len(refs) |-> <<>>]
    /\ calls = <<>>

NextFootnote ==
    \E o \in DOMAIN xml_of :
        \/ Footnote_omission(o)
        \/ \E reason \in {add, correxi, conieci, standard} :
               Footnote_correction(o, reason)

(***************************************************************************)
(* Specification of one call on one Footnote object made with a list of    *)
(* its own, over bounded footnote texts: a text before the ']', the ']'    *)
(* or not, connectives, and words separated by single spaces; and the      *)
(* footnotes of the forms the docstrings and the tests give.               *)
(***************************************************************************)
\* the text before the bracket, with the bracket or without
FtBases ==
    { <<"t", " ", "]", " ">>,
      <<"t", " ">> }

\* the connectives after the bracket
FtConnectives ==
    { <<>>,
      <<"c", "o", "r", "r", "e", "x", "i", ":", " ">>,
      <<"c", "o", "n", "i", "e", "c", "i", ":", " ">>,
      <<"a", "d", "d", ".", " ">>,
      <<"a", "d", "d", ".", " ", "c", "o", "r", "r", "e", "x", "i", ":", " ">>,
      <<"c", "o", "r", "r", "e", "x", "i", ":", " ", "c", "o", "n", "i", "e", "c", "i", ":", " ">> }

\* the words after the connectives
FtWords ==
    { <<"o", "m", ".">>,
      <<"V", ":">>,
      <<"V", ",">>,
      <<"W">>,
      <<"c", " ", "d">>,
      <<"o", "m", ".", "W">> }

FtTexts ==
    {b \o c \o join(<<" ">>, ws) :
        b \in FtBases, c \in FtConnectives, ws \in SeqUpTo(FtWords, MaxWords)}

\* the texts before the bracket of the forms
FormTexts == { <<"t">>, <<"t", " ", "u">> }

\* the witness codes of the forms
FormWitnesses == { <<"V">>, <<"W">> }

\* the readings of the forms
FormReadings == { <<"c">>, <<"c", " ", "d">> }

\* 'T ] W1: om. W2', 'T ] correxi: om. W1', 'T ] correxi: om. W1, W2',
\* 'T ] correxi: C W1: om. W2' and the same with conieci
FormsOmission ==
    {t \o <<" ", "]", " ">> \o w1 \o <<":", " ", "o", "m", ".", " ">> \o w2 :
        t \in FormTexts, w1 \in FormWitnesses, w2 \in FormWitnesses}
    \cup {t \o <<" ", "]", " ">> \o r \o <<":", " ", "o", "m", ".", " ">> \o w1 :
        t \in FormTexts, r \in {correxi, conieci}, w1 \in FormWitnesses}
    \cup {t \o <<" ", "]", " ">> \o r \o <<":", " ", "o", "m", ".", " ">> \o w1 \o <<",", " ">> \o w2 :
        t \in FormTexts, r \in {correxi, conieci}, w1 \in FormWitnesses,
        w2 \in FormWitnesses}
    \cup {t \o <<" ", "]", " ">> \o r \o <<":", " ">> \o c \o <<" ">> \o w1 \o <<":", " ", "o", "m", ".", " ">> \o w2 :
        t \in FormTexts, r \in {correxi, conieci}, c \in FormReadings,
        w1 \in FormWitnesses, w2 \in FormWitnesses}

\* after the connective: 'A W1', 'A W1, W2', 'A W1: B W2' and
\* 'A W1: B W2: C W3'
FormsGroups ==
    {a \o <<" ">> \o w1 : a \in FormReadings, w1 \in FormWitnesses}
    \cup {a \o <<" ">> \o w1 \o <<",", " ">> \o w2 :
        a \in FormReadings, w1 \in FormWitnesses, w2 \in FormWitnesses}
    \cup {a \o <<" ">> \o w1 \o <<":", " ">> \o b \o <<" ">> \o w2 :
        a \in FormReadings, b \in FormReadings, w1 \in FormWitnesses,
        w2 \in FormWitnesses}
    \cup {a \o <<" ">> \o w1 \o <<":", " ">> \o b \o <<" ">> \o w2 \o <<":", " ">> \o c \o <<" ">> \o w3 :
        a \in FormReadings, b \in FormReadings, c \in FormReadings,
        w1 \in FormWitnesses, w2 \in FormWitnesses, w3 \in FormWitnesses}

\* 'T ] add. ...', 'T ] correxi: ...', 'T ] conieci: ...'
FormsCorrection ==
    {t \o <<" ", "]", " ">> \o k \o <<" ">> \o g :
        t \in FormTexts, k \in {<<"a", "d", "d", ".">>, <<"c", "o", "r", "r", "e", "x", "i", ":">>, <<"c", "o", "n", "i", "e", "c", "i", ":">>}, g \in FormsGroups}

\* 'T ] W1: U W2'
FormsStandard ==
    {t \o <<" ", "]", " ">> \o w1 \o <<":", " ">> \o u \o <<" ">> \o w2 :
        t \in FormTexts, u \in FormReadings, w1 \in FormWitnesses,
        w2 \in FormWitnesses}

FtForms == FormsOmission \cup FormsCorrection \cup FormsStandard

InitFootnote ==
    /\ \E text \in FtTexts \cup FtForms :
           footnote_enter(text, <<"list1">>, 1)
    /\ fn_idle
    /\ ref_idle
    /\ dic_idle
    /\ main_idle
    /\ unit_idle
    /\ epidoc_idle

SpecFootnote == InitFootnote /\ [][NextFootnote]_vars

(***************************************************************************)
(* Specification of up to MaxCalls calls on two Footnote objects that hold *)
(* the same text, both made with the default arguments or both with a      *)
(* list of their own.                                                      *)
(***************************************************************************)
\* footnotes of every grammar, well formed and not
TwiceTexts ==
    { <<"t", " ", "]", " ", "V", ":", " ", "o", "m", ".", " ", "W">>,
      <<"t", " ", "]", " ", "c", "o", "r", "r", "e", "x", "i", ":", " ", "c", " ", "V", ":", " ", "o", "m", ".", " ", "W">>,
      <<"t", " ", "]", " ", "c", "o", "n", "i", "e", "c", "i", ":", " ", "o", "m", ".", " ", "V", ",", " ", "W">>,
      <<"t", " ", "]", " ", "a", "d", "d", ".", " ", "c", " ", "V", ",", " ", "W">>,
      <<"t", " ", "]", " ", "c", "o", "r", "r", "e", "x", "i", ":", " ", "c", " ", "V", ":", " ", "c", " ", "d", " ", "W">>,
      <<"t", " ", "]", " ", "c", "o", "n", "i", "e", "c", "i", ":", " ", "c", " ", "V", ",", " ", "W">>,
      <<"t", " ", "]", " ", "V", ":", " ", "c", " ", "W">>,
      <<"t", " ", "]", " ", "V">>,
      <<"t", " ", "V", ":", " ", "o", "m", ".", " ", "W">>,
      <<"t", " ", "]", " ", "V", ":", " ", "o", "m", ".", "W">>,
      <<"t", " ", "]", " ", "a", "d", "d", ".">>,
      <<"t">> }

InitFootnoteTwice ==
    /\ \E text \in TwiceTexts :
       \E refs \in {<<"default", "default">>, <<"list1", "list2">>} :
           footnote_enter(text, refs, MaxCalls)
    /\ fn_idle
    /\ ref_idle
    /\ dic_idle
    /\ main_idle
    /\ unit_idle
    /\ epidoc_idle

SpecFootnoteTwice == InitFootnoteTwice /\ [][NextFootnote]_vars

(***************************************************************************)
(* Footnote.verification()                                                 *)
(* The log is the sequence of the messages given to logger.error; a        *)
(* message is the sequence of its literal parts and of the characters      *)
(* formatted into it.                                                      *)
(***************************************************************************)
\* 'Error in footnote ' + str(k) + what
verification_error(k, what) == <<"Error in footnote ">> \o str(k) \o <<what>>

\* 'Footnote {}: {}'.format(k, footnote)
verification_footnote(k, fn) == <<"Footnote ">> \o str(k) \o <<": ">> \o fn

\* mutant: a check that fails is logged without the number of the footnote
verification_failed_unnamed(failed, k, what, fn) ==
    IF failed THEN <<<<"Error in footnote ", what>>,
                     verification_footnote(k, fn)>>
    ELSE <<>>

\* one try block: the two messages of a check that fails
verification_failed(failed, k, what, fn) ==
    IF failed THEN <<verification_error(k, what), verification_footnote(k, fn)>>
    ELSE <<>>

\* the last test: the format of the kind of the footnote
verification_kind(k, fn) ==
    IF contains(fn, <<"o", "m", ".">>) THEN <<>>
    ELSE IF contains(fn, <<"a", "d", "d", ".">>)
    THEN verification_failed(
             py_slice(partition(fn, <<"]">>)[3], 0, 6)
                 # <<" ", "a", "d", "d", ".", " ">>,
             k, ": addition must contain \" add. \" after \"]\"", fn)
    ELSE IF contains(fn, correxi) THEN <<>>
    ELSE IF contains(fn, conieci) THEN <<>>
    ELSE verification_failed(
             count(fn, ":") # 1, k,
             ": standard variation should contain one \":\" character", fn)

\* verification() of the footnote text with number k: the exception and
\* the log
verification_call(k, text) ==
    LET f0 == <<"*">> \o str(k) \o <<"*">> \o text \o <<".">>
        f1 == lstrip_chars(f0, {"*"})
        n == partition(f1, <<"*">>)[1]
        f2 == partition(f1, <<"*">>)[3]
        head ==
            << <<"verif 1: ">> \o str(k), <<"verif 2: ">> \o text >>
            \o verification_failed(count(f0, "*") # 2, k,
                   ": should contain two \"*\" characters", f0)
            \o verification_failed(f0[1] # "*", k,
                   ": first character is not an \"*\"", f0)
            \o verification_failed(f1[Len(f1)] # ".", k,
                   ": last character is not an \".\"", f1)
    IN  IF ~IsIntLiteral(n)
        THEN [exc |-> "ValueError", log |-> head]
        ELSE [exc |-> NoExc,
              log |-> head
                  \o (IF int(n) # k
                      THEN << <<"Error in footnote ">> \o str(k)
                              \o <<": expected footnote ">> \o str(k)
                              \o <<" but found footnote ">> \o n,
                              verification_footnote(k, f2) >>
                      ELSE <<>>)
                  \o verification_failed(count(f2, "]") # 1, k,
                         ": should contain one \"]\" character", f2)
                  \o verification_failed(contains(f2, <<"c", "o", "d", "d">>),
                         k, ": contains \"codd\"", f2)
                  \o verification_failed(contains(f2, <<";">>), k,
                         ": contains \";\"", f2)
                  \o verification_kind(k, f2)]

\* ft.verification(): it reads self.footnote and self.n_footnote and
\* assigns to no attribute
Footnote_verification(o) ==
    /\ pc = "Footnote"
    /\ Len(calls) < arg.calls
    /\ LET r == verification_call(arg.n_footnote, footnote)
       IN  /\ calls' = Append(calls,
                  [obj |-> o,
                   method |-> "verification",
                   exc |-> r.exc,
                   log |-> r.log,
                   footnote |-> footnote,
                   xml |-> heap[xml_of[o]],
                   d_footnote |-> d_footnote[o]])
           /\ exc' = r.exc
    /\ UNCHANGED <<pc, ret, arg, footnote, xml_of, heap, d_footnote>>
    /\ UNCHANGED ft_others

\* Footnote(text, k, xml=[])
verification_enter(text, k) ==
    /\ pc = "Footnote"
    /\ ret = NoValue
    /\ exc = NoExc
    /\ arg = [footnote |-> text, n_footnote |-> k, calls |-> 1]
    /\ footnote = text
    /\ xml_of = <<"list1">>
    /\ heap = [r \in {"default", "list1", "list2"} |-> <<>>]
    /\ d_footnote = <<<<>>>>
    /\ calls = <<>>

NextVerification == \E o \in DOMAIN xml_of : Footnote_verification(o)

(***************************************************************************)
(* Specification of verification() over bounded footnotes: a text before   *)
(* the bracket, the bracket (none, one, two), the connective or another    *)
(* text first, and words, for the footnote numbers 1 and 12.               *)
(***************************************************************************)
\* the text before the bracket
VerBefore ==
    { <<"s">>,
      <<"s", ";">>,
      <<"s", "*">>,
      <<"c", "o", "d", "d">> }

\* the bracket
VerBrackets ==
    { <<" ", "]", " ">>,
      <<" ">>,
      <<" ", "]", " ", "]", " ">>,
      <<" ", "]">> }

\* what follows the bracket
VerConnectives ==
    { <<>>,
      <<"a", "d", "d", ".", " ">>,
      <<"c", "o", "r", "r", "e", "x", "i", ":", " ">>,
      <<"c", "o", "n", "i", "e", "c", "i", ":", " ">>,
      <<"t", " ", "a", "d", "d", ".", " ">>,
      <<"t", " ", "c", "o", "r", "r", "e", "x", "i", " ">>,
      <<"t", " ", "c", "o", "n", "i", "e", "c", "i", " ">> }

\* the words
VerWords ==
    { <<"V", ":">>,
      <<"W">>,
      <<"o", "m", ".">> }

VerTexts ==
    {a \o b \o c \o join(<<" ">>, ws) :
        a \in VerBefore, b \in VerBrackets, c \in VerConnectives,
        ws \in SeqUpTo(VerWords, MaxWords)}

\* the numbers of the footnotes
VerNumbers == {1, 12}

InitVerification ==
    /\ \E text \in VerTexts : \E k \in VerNumbers :
           verification_enter(text, k)
    /\ fn_idle
    /\ ref_idle
    /\ dic_idle
    /\ main_idle
    /\ unit_idle
    /\ epidoc_idle

SpecVerification == InitVerification /\ [][NextVerification]_vars

(***************************************************************************)
(* CommentaryToEpidoc.Process: the older converter.  _references and the   *)
(* five methods that render a footnote work on strings only; each of the   *)
(* five is given here by the lines it appends to xml_app.                  *)
(***************************************************************************)
\* the default of the argument offset_size of Process
offset_size == 4

\* self.oss
oss == repeat(<<" ">>, offset_size)

\* _references(line), from the pass that begins with the rest ln of the
\* line and the result res: <<TRUE, result>>, or <<FALSE>> for its
\* CommentaryToEpidocException
RECURSIVE _references(_, _)
_references(ln, res) ==
    LET p == partition(ln, <<"[">>)
        r1 == IF p[1] # <<>>
              THEN res \o p[1] \o (IF p[2] # <<>> THEN <<"\n">> ELSE <<>>)
              ELSE res
        c == partition(p[3], <<"]">>)
        w == partition(c[1], <<" ">>)
        r2 == r1 \o <<"<locus", " ", "target=\"">> \o w[1] \o <<"\">">>
                 \o w[3] \o <<"</locus>">>
    IN  IF p[2] = <<>> THEN <<TRUE, r1>>
        ELSE IF c[2] = <<>> \/ w[2] = <<>> THEN <<FALSE>>
        ELSE IF c[3] = <<>> THEN <<TRUE, r2>>
        ELSE _references(c[3], r2 \o <<"\n">>)

\* self.oss + '<rdg wit="#' + wit + '">' + text + '</rdg>'
rdg_line(wit, text) ==
    oss \o <<"<rdg", " ", "wit=\"#">> \o wit \o <<"\">">> \o text
        \o <<"</rdg>">>

\* the three lines of '<rdg wit="#wit">' around the element inner
rdg_block(wit, inner) ==
    << oss \o <<"<rdg", " ", "wit=\"#">> \o wit \o <<"\">">>,
       repeat(oss, 2) \o inner,
       oss \o <<"</rdg>">> >>

\* the witnesses and the text of 'text W1, W2, W3': the witnesses after
\* the commas from the last one on, then the last word before the first
\* comma
RECURSIVE comma_wits(_)
comma_wits(t) ==
    IF contains(t, <<",">>)
    THEN LET r == rpartition(t, <<",">>)
             more == comma_wits(r[1])
         IN  [wits |-> <<strip(r[3])>> \o more.wits, text |-> more.text]
    ELSE LET r == rpartition(t, <<" ">>)
         IN  [wits |-> <<r[3]>>, text |-> r[1]]

\* _omission(footnote, xml_app)
_omission(fn) ==
    LET p == partition(fn, <<":">>)
        t == partition(p[1], <<"]">>)
        w == partition(p[3], <<"o", "m", ".">>)
    IN  <<rdg_line(strip(t[3]), strip(t[1]))>>
        \o rdg_block(strip(w[3]), <<"<gap", " ", "reason=\"omission\"/>">>)

\* the block of one addition
add_lines(wit, text) ==
    rdg_block(wit, <<"<add", " ", "reason=\"add_scribe\">">> \o strip(text)
                   \o <<"</add>">>)

\* _addition(footnote, xml_app)
_addition(fn) ==
    LET part2 == partition(fn, <<"a", "d", "d", ".">>)[3]
        variants == split(strip(part2), <<":">>)
        g == comma_wits(part2)
    IN  IF contains(part2, <<":">>)
        THEN concat([i \in 1..Len(variants) |->
                 LET v == rpartition(strip(variants[i]), <<" ">>)
                 IN  add_lines(v[3], v[1])])
        ELSE concat([i \in 1..Len(g.wits) |-> add_lines(g.wits[i], g.text)])

\* the five lines of the correction of the editor
corr_lines(tag, text) ==
    << oss \o <<"<rdg>">>,
       repeat(oss, 2) \o <<"<choice>">>,
       repeat(oss, 3) \o tag \o strip(text) \o <<"</corr>">>,
       repeat(oss, 2) \o <<"</choice>">>,
       oss \o <<"</rdg>">> >>

\* the readings after the correction in _correxi and _conieci
variant_lines(part2) ==
    LET variants == split(strip(part2), <<":">>)
        g == comma_wits(part2)
    IN  IF contains(part2, <<":">>)
        THEN [i \in 1..Len(variants) |->
                 LET v == rpartition(strip(variants[i]), <<" ">>)
                 IN  rdg_line(v[3], v[1])]
        ELSE [i \in 1..Len(g.wits) |-> rdg_line(g.wits[i], strip(g.text))]

\* _correxi(footnote, xml_app)
_correxi(fn) ==
    LET p == partition(fn, <<":">>)
    IN  corr_lines(<<"<corr>">>, partition(p[1], <<"]">>)[1])
        \o variant_lines(p[3])

\* _conieci(footnote, xml_app)
_conieci(fn) ==
    LET p == partition(fn, <<":">>)
    IN  corr_lines(<<"<corr", " ", "type=\"conjecture\">">>,
                   partition(p[1], <<"]">>)[1])
        \o variant_lines(p[3])

\* _standard_variant(footnote, xml_app)
_standard_variant(fn) ==
    LET p == partition(fn, <<":">>)
        t == partition(p[1], <<"]">>)
        r == rpartition(p[3], <<" ">>)
    IN  <<rdg_line(strip(t[3]), strip(t[1])), rdg_line(r[3], strip(r[1]))>>

\* s.rstrip(chars)
RECURSIVE rstrip_chars(_, _)
rstrip_chars(s, chars) ==
    IF s # <<>> /\ s[Len(s)] \in chars
    THEN rstrip_chars(SubSeq(s, 1, Len(s) - 1), chars) ELSE s

\* the text of the line of the table after its marker, without the
\* blanks and full stops at its end
footnote_text(footnote_line, symbol) ==
    partition(rstrip_chars(footnote_line, {" ", "."}), symbol)[3]

\* the lines _footnotes has appended to xml_app for the footnote whose
\* text, after its marker, is fn: the first of the five cases that applies
footnote_xml(fn) ==
    IF contains(fn, <<"o", "m", ".">>) THEN _omission(fn)
    ELSE IF contains(fn, <<"a", "d", "d", ".">>) THEN _addition(fn)
    ELSE IF contains(fn, <<"c", "o", "r", "r", "e", "x", "i">>) THEN _correxi(fn)
    ELSE IF contains(fn, <<"c", "o", "n", "i", "e", "c", "i">>) THEN _conieci(fn)
    ELSE _standard_variant(fn)

(***************************************************************************)
(* CommentaryToEpidoc.Process._footnotes(string_to_process): one action    *)
(* for each way a pass of its loop can go.  self.footnotes is a list of    *)
(* lines (process_file) or a mapping keyed from 1 (the test of the         *)
(* method).                                                                *)
(***************************************************************************)
CommentaryToEpidocException == "CommentaryToEpidocException"

\* self.footnotes[i]: the item, or the exception of the look-up; while
\* _introduction runs self.footnotes is still the string of the section,
\* whose item is a character
table_item(t, i) ==
    IF t.type = "list"
    THEN IF 0 <= i /\ i < Len(t.val)
         THEN [exc |-> NoExc, val |-> t.val[i + 1]]
         ELSE [exc |-> "IndexError", val |-> <<>>]
    ELSE IF t.type = "str"
    THEN IF 0 <= i /\ i < Len(t.val)
         THEN [exc |-> NoExc, val |-> <<t.val[i + 1]>>]
         ELSE [exc |-> "IndexError", val |-> <<>>]
    ELSE IF \E j \in 1..Len(t.val) : t.val[j].key = i
         THEN [exc |-> NoExc,
               val |-> t.val[CHOOSE j \in 1..Len(t.val) :
                                 t.val[j].key = i].value]
         ELSE [exc |-> "KeyError", val |-> <<>>]

\* the index under which _footnotes looks up the footnote of marker n
table_index(n) == n - 1

\* the lines of text, stripped, at the depth n_offset
epidoc_text_lines(t) ==
    [i \in 1..Len(splitlines(t)) |->
        repeat(oss, n_offset) \o strip(splitlines(t)[i])]

\* the lines of the anchor of footnote n around base, and its '</app>'
epidoc_app_lines(n, base) ==
    LET next_string ==
            <<"<app", " ", "n=\"">> \o str(n)
            \o <<"\"", " ", "type=\"footnote\"", " ", "xml:id=\"begin_fn">>
            \o str(n) \o <<"\"><rdg>">> \o base
            \o <<"</rdg><anchor", " ", "xml:id=\"end_fn">> \o str(n)
            \o <<"\"/>">>
    IN  [i \in 1..Len(splitlines(next_string)) |->
            repeat(oss, n_offset) \o splitlines(next_string)[i]]
        \o <<repeat(oss, n_offset) \o <<"</app>">>>>

\* '<app> from="#begin_fn<n>" to="#end_fn<n>">'
epidoc_app_open(n) ==
    <<"<app>", " ", "from=\"#begin_fn">> \o str(n)
    \o <<"\"", " ", "to=\"#end_fn">> \o str(n) \o <<"\">">>

\* the text before the marker, cut at the first '#' or else at the last ' '
boundary_partition(before) ==
    IF partition(before, <<"#">>)[2] # <<>>
    THEN partition(before, <<"#">>)
    ELSE rpartition(before, <<" ">>)

\* the call _footnotes(text) begins
Process_footnotes_call(text) ==
    /\ pc' = "_footnotes"
    /\ ret' = NoValue
    /\ string_to_process' = text
    /\ next_footnote' = next_footnote_to_find
    /\ xml_main' = <<>>
    /\ fn_xml_app' = <<>>
    /\ text_before_symbol' = <<>>
    /\ next_text_for_xml' = <<>>
    /\ base_text' = <<>>

\* the marker of next_footnote is not in the text: the rest goes to
\* xml_main and the method returns
Process_footnotes_no_symbol ==
    \E p \in {partition(string_to_process, footnote_symbol(next_footnote))} :
        /\ pc = "_footnotes"
        /\ p[2] = <<>>
        /\ text_before_symbol' = p[1]
        /\ string_to_process' = p[3]
        /\ xml_main' = xml_main \o epidoc_text_lines(p[1])
        /\ next_footnote_to_find' = next_footnote
        /\ ret' = <<xml_main', fn_xml_app>>
        /\ pc' = "returned"
        /\ UNCHANGED <<exc, arg, next_footnote, next_text_for_xml, base_text>>
        /\ UNCHANGED <<n_offset, files, file_i, epidoc_text,
                       epidoc_introduction, epidoc_title, epidoc_footnotes,
                       section, section_lines, main_text,
                       next_line_to_process, epidoc_n_aphorism, file_line,
                       line_ref, fn_xml_app, epidoc_xml_main, epidoc_xml_app>>
        /\ UNCHANGED epidoc_others

\* the text before the marker has neither '#' nor ' '
Process_footnotes_raise ==
    \E p \in {partition(string_to_process, footnote_symbol(next_footnote))} :
    \E b \in {boundary_partition(p[1])} :
        /\ pc = "_footnotes"
        /\ p[2] # <<>>
        /\ b[2] = <<>>
        /\ text_before_symbol' = p[1]
        /\ string_to_process' = p[3]
        /\ next_text_for_xml' = b[1]
        /\ base_text' = b[3]
        /\ exc' = CommentaryToEpidocException
        /\ pc' = "raised"
        /\ UNCHANGED <<ret, arg, next_footnote, xml_main>>
        /\ UNCHANGED epidoc_vars
        /\ UNCHANGED epidoc_others

\* the marker is found and its text has a boundary, the table has no item
\* at the index of the footnote: the look-up raises
Process_footnotes_missing ==
    /\ pc = "_footnotes"
    /\ \E p \in {partition(string_to_process, footnote_symbol(next_footnote))} :
       \E b \in {boundary_partition(p[1])} :
       \E item \in {table_item(epidoc_footnotes, table_index(next_footnote))} :
        /\ p[2] # <<>>
        /\ b[2] # <<>>
        /\ item.exc # NoExc
        /\ text_before_symbol' = p[1]
        /\ string_to_process' = p[3]
        /\ next_text_for_xml' = b[1]
        /\ base_text' = b[3]
        /\ xml_main' = xml_main \o epidoc_text_lines(b[1])
                       \o epidoc_app_lines(next_footnote, b[3])
        /\ fn_xml_app' = Append(fn_xml_app, epidoc_app_open(next_footnote))
        /\ exc' = item.exc
        /\ pc' = "raised"
        /\ UNCHANGED <<ret, arg, next_footnote>>
        /\ UNCHANGED <<n_offset, next_footnote_to_find, files, file_i,
                       epidoc_text, epidoc_introduction, epidoc_title,
                       epidoc_footnotes, section, section_lines, main_text,
                       next_line_to_process, epidoc_n_aphorism, file_line,
                       line_ref, epidoc_xml_main, epidoc_xml_app>>
        /\ UNCHANGED epidoc_others

\* the marker is found, its text has a boundary and the table an item:
\* the anchor goes to xml_main, the block of the footnote to xml_app, and
\* the loop goes on unless the text has ended
Process_footnotes_symbol ==
    /\ pc = "_footnotes"
    /\ \E p \in {partition(string_to_process, footnote_symbol(next_footnote))} :
       \E b \in {boundary_partition(p[1])} :
       \E item \in {table_item(epidoc_footnotes, table_index(next_footnote))} :
        /\ p[2] # <<>>
        /\ b[2] # <<>>
        /\ item.exc = NoExc
        /\ text_before_symbol' = p[1]
        /\ string_to_process' = p[3]
        /\ next_text_for_xml' = b[1]
        /\ base_text' = b[3]
        /\ xml_main' = xml_main \o epidoc_text_lines(b[1])
                       \o epidoc_app_lines(next_footnote, b[3])
        /\ fn_xml_app' =
               Append(fn_xml_app, epidoc_app_open(next_footnote))
               \o footnote_xml(footnote_text(item.val,
                                   footnote_symbol(next_footnote)))
               \o <<<<"</app>">>>>
        /\ next_footnote' = next_footnote + 1
        /\ IF p[3] = <<>>
           THEN /\ next_footnote_to_find' = next_footnote + 1
                /\ ret' = <<xml_main', fn_xml_app'>>
                /\ pc' = "returned"
           ELSE UNCHANGED <<next_footnote_to_find, ret, pc>>
        /\ UNCHANGED <<exc, arg>>
        /\ UNCHANGED <<n_offset, files, file_i, epidoc_text,
                       epidoc_introduction, epidoc_title, epidoc_footnotes,
                       section, section_lines, main_text,
                       next_line_to_process, epidoc_n_aphorism, file_line,
                       line_ref, epidoc_xml_main, epidoc_xml_app>>
        /\ UNCHANGED epidoc_others

NextEpidocFootnotes ==
    \/ Process_footnotes_no_symbol
    \/ Process_footnotes_raise
    \/ Process_footnotes_missing
    \/ Process_footnotes_symbol

(***************************************************************************)
(* Specification of one call of Process._footnotes on a Process object     *)
(* whose table self.footnotes is a list of lines or a mapping keyed from   *)
(* 1, with the footnotes 1..N for N up to 2, over lines with the markers   *)
(* *1*, *2* and *3*.                                                       *)
(***************************************************************************)
EpidocTableLines == << <<"*", "1", "*", "t", " ", "]", " ", "V", ":", " ", "c", " ", "W", ".">>, <<"*", "2", "*", "u", " ", "]", " ", "V", ":", " ", "o", "m", ".", " ", "W", ".">> >>

\* the tables of the first N lines, as a list and as a mapping from 1
EpidocTables ==
    {PyList(SubSeq(EpidocTableLines, 1, n)) : n \in 0..Len(EpidocTableLines)}
    \cup {PyDict([i \in 1..n |-> [key |-> i, value |-> EpidocTableLines[i]]]) :
             n \in 0..Len(EpidocTableLines)}

EpidocTokens == { <<"a">>, <<" ", "b", "*", "1", "*">>, <<" ", "#", "c", " ", "d", "*", "2", "*">>, <<" ", "e", "*", "3", "*">>, <<"f", "*", "1", "*">> }

EpidocLines == {concat(ts) : ts \in SeqUpTo(EpidocTokens, MaxTokens)}

\* the state in which self._footnotes(text) is called on an object with
\* the table t and the cursor c
epidoc_footnotes_enter(text, t, c) ==
    /\ pc = "_footnotes"
    /\ ret = NoValue
    /\ exc = NoExc
    /\ arg = [string_to_process |-> text, footnotes |-> t,
              next_footnote_to_find |-> c]
    /\ string_to_process = text
    /\ next_footnote = c
    /\ xml_main = <<>>
    /\ text_before_symbol = <<>>
    /\ next_text_for_xml = <<>>
    /\ base_text = <<>>
    /\ n_offset = 0
    /\ next_footnote_to_find = c
    /\ files = <<>>
    /\ file_i = 0
    /\ epidoc_text = <<>>
    /\ epidoc_introduction = <<>>
    /\ epidoc_title = <<>>
    /\ epidoc_footnotes = t
    /\ section = "none"
    /\ section_lines = <<>>
    /\ main_text = <<>>
    /\ next_line_to_process = 0
    /\ epidoc_n_aphorism = 0
    /\ file_line = <<>>
    /\ line_ref = <<>>
    /\ fn_xml_app = <<>>
    /\ epidoc_xml_main = <<>>
    /\ epidoc_xml_app = <<>>

InitEpidocFootnotes ==
    /\ \E text \in EpidocLines : \E t \in EpidocTables :
       \E c \in 1..MaxCursor : epidoc_footnotes_enter(text, t, c)
    /\ ref_idle
    /\ dic_idle
    /\ main_idle
    /\ ft_idle
    /\ unit_idle

SpecEpidocFootnotes == InitEpidocFootnotes /\ [][NextEpidocFootnotes]_vars

(***************************************************************************)
(* CommentaryToEpidoc.Process.process_folder and process_file on the       *)
(* files of a folder, named file_1.txt, file_2.txt, ..: the files are      *)
(* given by their text.  The template is there, so that save_xml writes    *)
(* the two files of a document and changes nothing on the object.  The     *)
(* local next_line_to_process of _introduction and _title is kept in the   *)
(* variable of the one of process_file, which is 0 until they have ended.  *)
(***************************************************************************)
\* get_next_non_empty_line(text, next_line_to_process): the line, stripped,
\* and the index after it; not ok is the IndexError at the end of the list
RECURSIVE get_next_non_empty_line(_, _)
get_next_non_empty_line(lines, n) ==
    IF n >= Len(lines) THEN [ok |-> FALSE, line |-> <<>>, next |-> n]
    ELSE IF strip(lines[n + 1]) = <<>>
         THEN get_next_non_empty_line(lines, n + 1)
         ELSE [ok |-> TRUE, line |-> strip(lines[n + 1]), next |-> n + 1]

\* s.find(sub, start) + 1 (0 when absent)
find_from(s, sub, start) ==
    LET cand == {i \in (start + 1)..Len(s) : MatchAt(s, sub, i)}
    IN  IF cand = {} THEN 0 ELSE Min(cand)

\* s.isdigit()
isdigit(s) == s # <<>> /\ \A i \in 1..Len(s) : IsDigit(s[i])

\* the exception verification_footnotes ends with on the lines of the
\* table: footnote[-1] of a line of '*' only, int(n) of a line whose
\* number is none; its messages go to the log
RECURSIVE verification_footnotes(_)
verification_footnotes(lines) ==
    IF lines = <<>> THEN NoExc
    ELSE LET f == strip(Head(lines))
             g == lstrip_chars(f, {"*"})
         IN  IF f = <<>> THEN verification_footnotes(Tail(lines))
             ELSE IF g = <<>> THEN "IndexError"
             ELSE IF ~IsIntLiteral(partition(g, <<"*">>)[1])
                  THEN "ValueError"
             ELSE verification_footnotes(Tail(lines))

\* self.oss * (self.n_offset + n) + tag
epidoc_line(n, tag) == repeat(oss, n_offset + n) \o tag

\* what n_offset grows by around the call of _footnotes
footnotes_depth(sec) == IF sec \in {"intro", "title"} THEN 2 ELSE 3

\* process_file ends with the exception e
process_file_raise(e) ==
    /\ pc' = "process_file_raised"
    /\ exc' = e

\* for fname in files: the next file is opened, process_file begins
process_folder_file ==
    /\ pc = "process_folder"
    /\ file_i < Len(files)
    /\ file_i' = file_i + 1
    /\ next_footnote_to_find' = 1
    /\ next_line_to_process' = 0
    /\ epidoc_text' = strip(files[file_i + 1])
    /\ pc' = "divide_document"
    /\ section' = "file"
    /\ UNCHANGED <<ret, exc, arg, fn_vars>>
    /\ UNCHANGED <<n_offset, files, epidoc_introduction, epidoc_title,
                   epidoc_footnotes, section_lines, main_text,
                   epidoc_n_aphorism, file_line, line_ref, fn_xml_app,
                   epidoc_xml_main, epidoc_xml_app>>
    /\ UNCHANGED epidoc_others

\* divide_document, and the lists xml_main and xml_app made anew
process_file_divide_document ==
    \E loc \in {rfind(epidoc_text, <<"*", "1", "*">>)} :
    \E body \in {SubSeq(epidoc_text, 1, loc - 1)} :
    \E loc_intro \in {find_from(body, <<"+", "+", "\n">>, 3)} :
    \E rest \in {IF loc_intro = 0 THEN body
                 ELSE SubSeq(body, loc_intro + 3, Len(body))} :
    \E loc_title \in {find(rest, <<"1", ".">>)} :
        /\ pc = "divide_document"
        /\ IF loc = find(epidoc_text, <<"*", "1", "*">>)
           THEN /\ process_file_raise(CommentaryToEpidocException)
                /\ UNCHANGED <<epidoc_text, epidoc_introduction, epidoc_title,
                               epidoc_footnotes, epidoc_xml_main,
                               epidoc_xml_app>>
           ELSE /\ epidoc_footnotes' =
                       PyStr(strip(SubSeq(epidoc_text, loc, Len(epidoc_text))))
                /\ epidoc_introduction' =
                       IF loc_intro = 0 THEN <<>>
                       ELSE strip(SubSeq(body, 4, loc_intro - 1))
                /\ epidoc_title' = strip(py_slice(rest, 0, loc_title - 1))
                /\ epidoc_text' =
                       strip(py_slice(rest, loc_title - 1, Len(rest)))
                /\ epidoc_xml_main' = <<>>
                /\ epidoc_xml_app' = <<>>
                /\ pc' = "introduction"
                /\ exc' = exc
        /\ UNCHANGED <<ret, arg, fn_vars>>
        /\ UNCHANGED <<n_offset, next_footnote_to_find, files, file_i,
                       section, section_lines, main_text,
                       next_line_to_process, epidoc_n_aphorism, file_line,
                       line_ref, fn_xml_app>>
        /\ UNCHANGED epidoc_others

\* if self.introduction is not '': _introduction() begins
process_file_introduction ==
    /\ pc = "introduction"
    /\ IF epidoc_introduction # <<>>
       THEN \E ls \in {splitlines(epidoc_introduction) \o <<<<"\n", "+", "+">>>>} :
            \E g \in {get_next_non_empty_line(ls, 0)} :
                /\ section_lines' = ls
                /\ epidoc_xml_main' = epidoc_xml_main \o
                       <<epidoc_line(0, <<"<div", " ", "type=\"intro\">">>),
                         epidoc_line(1, <<"<p>">>)>>
                /\ file_line' = g.line
                /\ next_line_to_process' = g.next
                /\ section' = "intro"
                /\ pc' = "line"
       ELSE /\ pc' = "title"
            /\ UNCHANGED <<section_lines, epidoc_xml_main, file_line,
                           next_line_to_process, section>>
    /\ UNCHANGED <<ret, exc, arg, fn_vars>>
    /\ UNCHANGED <<n_offset, next_footnote_to_find, files, file_i,
                   epidoc_text, epidoc_introduction, epidoc_title,
                   epidoc_footnotes, main_text, epidoc_n_aphorism, line_ref,
                   fn_xml_app, epidoc_xml_app>>
    /\ UNCHANGED epidoc_others

\* the lines of the text and of the footnotes, verification_footnotes,
\* and _title() begins
process_file_title ==
    /\ pc = "title"
    /\ \E table \in {splitlines(epidoc_footnotes.val)} :
       \E ls \in {splitlines(epidoc_title \o <<"\n", "1", ".">>)} :
       \E g \in {get_next_non_empty_line(ls, 0)} :
        /\ main_text' = splitlines(epidoc_text)
        /\ epidoc_footnotes' = PyList(table)
        /\ IF verification_footnotes(table) # NoExc
           THEN /\ process_file_raise(verification_footnotes(table))
                /\ UNCHANGED <<section_lines, epidoc_xml_main, file_line,
                               next_line_to_process, section>>
           ELSE /\ section_lines' = ls
                /\ epidoc_xml_main' = epidoc_xml_main \o
                       <<epidoc_line(0, <<"<div", " ", "n=\"">> \o str(file_i)
                             \o <<"\"", " ", "type=\"Title_section\">">>),
                         epidoc_line(1, <<"<ab>">>)>>
                /\ file_line' = g.line
                /\ next_line_to_process' = g.next
                /\ section' = "title"
                /\ pc' = "line"
                /\ exc' = exc
        /\ UNCHANGED <<ret, arg, fn_vars>>
        /\ UNCHANGED <<n_offset, next_footnote_to_find, files, file_i,
                       epidoc_text, epidoc_introduction, epidoc_title,
                       epidoc_n_aphorism, line_ref, fn_xml_app,
                       epidoc_xml_app>>
        /\ UNCHANGED epidoc_others

\* the line at hand: _references, whose exception ends process_file, then
\* n_offset grows and _footnotes is called
process_file_line ==
    \E r \in {_references(file_line, <<>>)} :
        /\ pc = "line"
        /\ IF ~r[1]
           THEN /\ process_file_raise(CommentaryToEpidocException)
                /\ UNCHANGED <<ret, fn_vars, line_ref, n_offset, fn_xml_app>>
           ELSE /\ line_ref' = r[2]
                /\ n_offset' = n_offset + footnotes_depth(section)
                /\ Process_footnotes_call(r[2])
                /\ exc' = exc
        /\ UNCHANGED <<arg, next_footnote_to_find, files, file_i, epidoc_text,
                       epidoc_introduction, epidoc_title, epidoc_footnotes,
                       section, section_lines, main_text,
                       next_line_to_process, epidoc_n_aphorism, file_line,
                       epidoc_xml_main, epidoc_xml_app>>
        /\ UNCHANGED epidoc_others

\* _footnotes has ended: its exception ends process_file, the one of the
\* look-up as it is; else n_offset shrinks and the lists are extended
process_file_footnotes ==
    /\ pc \in {"returned", "raised"}
    /\ section \in {"intro", "title", "aphorism", "commentary"}
    /\ IF pc = "raised"
       THEN /\ process_file_raise(exc)
            /\ UNCHANGED <<n_offset, epidoc_xml_main, epidoc_xml_app>>
       ELSE /\ n_offset' = n_offset - footnotes_depth(section)
            /\ epidoc_xml_main' = epidoc_xml_main \o ret[1]
            /\ epidoc_xml_app' = epidoc_xml_app \o ret[2]
            /\ pc' = "line_done"
            /\ exc' = exc
    /\ UNCHANGED <<ret, arg, fn_vars>>
    /\ UNCHANGED <<next_footnote_to_find, files, file_i, epidoc_text,
                   epidoc_introduction, epidoc_title, epidoc_footnotes,
                   section, section_lines, main_text, next_line_to_process,
                   epidoc_n_aphorism, file_line, line_ref, fn_xml_app>>
    /\ UNCHANGED epidoc_others

\* the next line of the introduction or of the title, or its end: after
\* the introduction the title, after the title the first line of the text
process_file_section_next ==
    \E g \in {get_next_non_empty_line(section_lines, next_line_to_process)} :
    \E first \in {get_next_non_empty_line(main_text, 0)} :
        /\ pc = "line_done"
        /\ section \in {"intro", "title"}
        /\ IF ~g.ok
           THEN /\ process_file_raise("IndexError")
                /\ UNCHANGED <<epidoc_xml_main, file_line,
                               next_line_to_process, section,
                               epidoc_n_aphorism>>
           ELSE IF section = "intro" /\ g.line = <<"+", "+">>
           THEN /\ epidoc_xml_main' = epidoc_xml_main \o
                       <<epidoc_line(1, <<"</p>">>),
                         epidoc_line(0, <<"</div>">>)>>
                /\ next_line_to_process' = 0
                /\ section' = "file"
                /\ pc' = "title"
                /\ UNCHANGED <<exc, file_line, epidoc_n_aphorism>>
           ELSE IF section = "title" /\ g.line = <<"1", ".">>
           THEN /\ epidoc_xml_main' = epidoc_xml_main \o
                       <<epidoc_line(1, <<"</ab>">>),
                         epidoc_line(0, <<"</div>">>)>>
                /\ section' = "file"
                /\ IF ~first.ok
                   THEN /\ process_file_raise("IndexError")
                        /\ UNCHANGED <<file_line, next_line_to_process,
                                       epidoc_n_aphorism>>
                   ELSE /\ file_line' = first.line
                        /\ next_line_to_process' = first.next
                        /\ epidoc_n_aphorism' = 1
                        /\ pc' = "unit"
                        /\ exc' = exc
           ELSE /\ file_line' = g.line
                /\ next_line_to_process' = g.next
                /\ pc' = "line"
                /\ UNCHANGED <<exc, epidoc_xml_main, section,
                               epidoc_n_aphorism>>
        /\ UNCHANGED <<ret, arg, fn_vars>>
        /\ UNCHANGED <<n_offset, next_footnote_to_find, files, file_i,
                       epidoc_text, epidoc_introduction, epidoc_title,
                       epidoc_footnotes, section_lines, main_text, line_ref,
                       fn_xml_app, epidoc_xml_app>>
        /\ UNCHANGED epidoc_others

\* while next_line_to_process < len(main_text): the number of the
\* aphorism, the opening lines of the unit and the line of the aphorism;
\* after the loop save_xml
process_file_unit ==
    \E g \in {get_next_non_empty_line(main_text, next_line_to_process)} :
        /\ pc = "unit"
        /\ IF next_line_to_process >= Len(main_text)
           THEN /\ pc' = "process_file_returned"
                /\ UNCHANGED <<exc, epidoc_xml_main, file_line,
                               next_line_to_process, section>>
           ELSE IF py_slice(file_line, 0, -1) # str(epidoc_n_aphorism)
           THEN /\ process_file_raise(CommentaryToEpidocException)
                /\ UNCHANGED <<epidoc_xml_main, file_line,
                               next_line_to_process, section>>
           ELSE /\ epidoc_xml_main' = epidoc_xml_main \o
                       <<epidoc_line(0, <<"<div", " ", "n=\"">>
                             \o str(epidoc_n_aphorism) \o
                             <<"\"", " ",
                               "type=\"aphorism_commentary_unit\">">>),
                         epidoc_line(1, <<"<div", " ", "type=\"aphorism\">">>),
                         epidoc_line(2, <<"<p>">>)>>
                /\ IF ~g.ok
                   THEN /\ process_file_raise("IndexError")
                        /\ UNCHANGED <<file_line, next_line_to_process,
                                       section>>
                   ELSE /\ file_line' = g.line
                        /\ next_line_to_process' = g.next
                        /\ section' = "aphorism"
                        /\ pc' = "line"
                        /\ exc' = exc
        /\ UNCHANGED <<ret, arg, fn_vars>>
        /\ UNCHANGED <<n_offset, next_footnote_to_find, files, file_i,
                       epidoc_text, epidoc_introduction, epidoc_title,
                       epidoc_footnotes, section_lines, main_text,
                       epidoc_n_aphorism, line_ref, fn_xml_app,
                       epidoc_xml_app>>
        /\ UNCHANGED epidoc_others

\* the aphorism is closed and its first commentary opened
process_file_aphorism_next ==
    \E g \in {get_next_non_empty_line(main_text, next_line_to_process)} :
        /\ pc = "line_done"
        /\ section = "aphorism"
        /\ IF ~g.ok
           THEN /\ epidoc_xml_main' = epidoc_xml_main \o
                       <<epidoc_line(2, <<"</p>">>),
                         epidoc_line(1, <<"</div>">>)>>
                /\ process_file_raise("IndexError")
                /\ UNCHANGED <<file_line, next_line_to_process, section>>
           ELSE /\ epidoc_xml_main' = epidoc_xml_main \o
                       <<epidoc_line(2, <<"</p>">>),
                         epidoc_line(1, <<"</div>">>),
                         epidoc_line(1, <<"<div", " ",
                                          "type=\"commentary\">">>),
                         epidoc_line(2, <<"<p>">>)>>
                /\ file_line' = g.line
                /\ next_line_to_process' = g.next
                /\ section' = "commentary"
                /\ pc' = "line"
                /\ exc' = exc
        /\ UNCHANGED <<ret, arg, fn_vars>>
        /\ UNCHANGED <<n_offset, next_footnote_to_find, files, file_i,
                       epidoc_text, epidoc_introduction, epidoc_title,
                       epidoc_footnotes, section_lines, main_text,
                       epidoc_n_aphorism, line_ref, fn_xml_app,
                       epidoc_xml_app>>
        /\ UNCHANGED epidoc_others

\* the commentary is closed; a line that is a number, or the end of the
\* text, closes the unit, another line opens the next commentary
process_file_commentary_next ==
    \E g \in {get_next_non_empty_line(main_text, next_line_to_process)} :
    \E closed \in {epidoc_xml_main \o <<epidoc_line(2, <<"</p>">>),
                                        epidoc_line(1, <<"</div>">>)>>} :
        /\ pc = "line_done"
        /\ section = "commentary"
        /\ IF next_line_to_process >= Len(main_text)
           THEN /\ epidoc_xml_main' =
                       Append(closed, epidoc_line(0, <<"</div>">>))
                /\ epidoc_n_aphorism' = epidoc_n_aphorism + 1
                /\ section' = "file"
                /\ pc' = "unit"
                /\ UNCHANGED <<exc, file_line, next_line_to_process>>
           ELSE IF ~g.ok
           THEN /\ epidoc_xml_main' = closed
                /\ process_file_raise("IndexError")
                /\ UNCHANGED <<file_line, next_line_to_process, section,
                               epidoc_n_aphorism>>
           ELSE IF isdigit(py_slice(g.line, 0, -1))
           THEN /\ epidoc_xml_main' =
                       Append(closed, epidoc_line(0, <<"</div>">>))
                /\ epidoc_n_aphorism' = epidoc_n_aphorism + 1
                /\ file_line' = g.line
                /\ next_line_to_process' = g.next
                /\ section' = "file"
                /\ pc' = "unit"
                /\ exc' = exc
           ELSE /\ epidoc_xml_main' = closed \o
                       <<epidoc_line(1, <<"<div", " ",
                                          "type=\"commentary\">">>),
                         epidoc_line(2, <<"<p>">>)>>
                /\ file_line' = g.line
                /\ next_line_to_process' = g.next
                /\ pc' = "line"
                /\ UNCHANGED <<exc, section, epidoc_n_aphorism>>
        /\ UNCHANGED <<ret, arg, fn_vars>>
        /\ UNCHANGED <<n_offset, next_footnote_to_find, files, file_i,
                       epidoc_text, epidoc_introduction, epidoc_title,
                       epidoc_footnotes, section_lines, main_text, line_ref,
                       fn_xml_app, epidoc_xml_app>>
        /\ UNCHANGED epidoc_others

\* process_file has ended: process_folder logs its
\* CommentaryToEpidocException and goes on; another exception ends
\* process_folder
process_folder_next ==
    /\ pc \in {"process_file_returned", "process_file_raised"}
    /\ IF exc \in {NoExc, CommentaryToEpidocException}
       THEN /\ pc' = "process_folder"
            /\ exc' = NoExc
       ELSE /\ pc' = "raised"
            /\ exc' = exc
    /\ section' = "folder"
    /\ UNCHANGED <<ret, arg, fn_vars>>
    /\ UNCHANGED <<n_offset, next_footnote_to_find, files, file_i,
                   epidoc_text, epidoc_introduction, epidoc_title,
                   epidoc_footnotes, section_lines, main_text,
                   next_line_to_process, epidoc_n_aphorism, file_line,
                   line_ref, fn_xml_app, epidoc_xml_main, epidoc_xml_app>>
    /\ UNCHANGED epidoc_others

\* no file is left: return True
process_folder_return ==
    /\ pc = "process_folder"
    /\ file_i >= Len(files)
    /\ pc' = "done"
    /\ ret' = <<TRUE>>
    /\ UNCHANGED <<exc, arg, fn_vars, epidoc_vars>>
    /\ UNCHANGED epidoc_others

(***************************************************************************)
(* Specification of process_folder on a Process object made with n_offset  *)
(* 0 or 1, over folders of up to MaxFiles files.                           *)
(***************************************************************************)
MaxFiles == 2

EpidocDocuments ==
    { <<"T", "\n", "\n", "1", ".", "\n", "a", " ", "b", "*", "1", "*", "\n", "c", ".", "\n", "\n", "*", "1", "*", "b", " ", "]", " ", "V", ":", " ", "c", " ", "W", ".">>,
      <<"T", "\n", "1", ".", "\n", "a", "b", "*", "1", "*", "\n", "c", ".", "\n", "*", "1", "*", "b", " ", "]", " ", "V", ":", " ", "c", " ", "W", ".">>,
      <<"T", "*", "1", "*", "\n", "1", ".", "\n", "a", "\n", "c", ".", "\n", "*", "1", "*", "T", " ", "]", " ", "V", ":", " ", "c", " ", "W", ".">>,
      <<"T", "\n", "1", ".", "\n", "a", "\n", "c", ".">>,
      <<"T", "\n", "1", ".", "\n", "a", " ", "[", "W", " ", "b", "*", "1", "*", "\n", "c", ".", "\n", "*", "1", "*", "b", " ", "]", " ", "V", ":", " ", "c", " ", "W", ".">>,
      <<"+", "+", "\n", "i", " ", "j", "*", "1", "*", "\n", "+", "+", "\n", "T", "\n", "1", ".", "\n", "a", "\n", "c", ".", "\n", "*", "1", "*", "j", " ", "]", " ", "V", ":", " ", "o", "m", ".", " ", "W", ".">>,
      <<"+", "+", "\n", "i", "*", "1", "*", "\n", "+", "+", "\n", "T", "\n", "1", ".", "\n", "a", "\n", "c", ".", "\n", "*", "1", "*", "i", " ", "]", " ", "V", ":", " ", "o", "m", ".", " ", "W", ".">>,
      <<"T", "\n", "1", ".", "\n", "a", "\n", "c", ".", "\n", "d", " ", "e", "*", "1", "*", "\n", "2", ".", "\n", "f", "\n", "g", ".", "\n", "*", "1", "*", "e", " ", "]", " ", "V", ":", " ", "c", " ", "W", ".">>,
      <<"T", "\n", "1", ".", "\n", "a", " ", "b", "*", "1", "*", " ", "c", "*", "2", "*", "\n", "d", ".", "\n", "*", "1", "*", "b", " ", "]", " ", "V", ":", " ", "c", " ", "W", ".">>,
      <<"T", "\n", "1", ".", "\n", "a", " ", "b", "*", "1", "*", "\n", "c", ".", "\n", "3", ".", "\n", "d", "\n", "e", ".", "\n", "*", "1", "*", "b", " ", "]", " ", "V", ":", " ", "c", " ", "W", ".">>,
      <<"T", "\n", "1", ".", "\n", "a", " ", "[", "W", " ", "1", "]", " ", "b", "*", "1", "*", "\n", "*", "1", "*", "b", " ", "]", " ", "V", ":", " ", "c", " ", "W", ".">>,
      <<"T", "\n", "1", ".", "\n", "a", " ", "b", "*", "1", "*", "\n", "c", " ", "d", "*", "2", "*", ".", "\n", "*", "1", "*", "b", " ", "]", " ", "V", ":", " ", "c", " ", "W", ".", "\n", "x">> }

\* the state in which process_folder is called on Process(n_offset=n) for
\* the folder of the files fs
process_folder_enter(fs, n) ==
    /\ pc = "process_folder"
    /\ ret = NoValue
    /\ exc = NoExc
    /\ arg = [files |-> fs, n_offset |-> n]
    /\ n_offset = n
    /\ next_footnote_to_find = 1
    /\ files = fs
    /\ file_i = 0
    /\ epidoc_text = <<>>
    /\ epidoc_introduction = <<>>
    /\ epidoc_title = <<>>
    /\ epidoc_footnotes = [type |-> "NoneType", val |-> None]
    /\ section = "folder"
    /\ section_lines = <<>>
    /\ main_text = <<>>
    /\ next_line_to_process = 0
    /\ epidoc_n_aphorism = 0
    /\ file_line = <<>>
    /\ line_ref = <<>>
    /\ fn_xml_app = <<>>
    /\ epidoc_xml_main = <<>>
    /\ epidoc_xml_app = <<>>

InitEpidoc ==
    /\ \E fs \in SeqUpTo(EpidocDocuments, MaxFiles) : \E n \in 0..1 :
           process_folder_enter(fs, n)
    /\ fn_idle
    /\ ref_idle
    /\ dic_idle
    /\ main_idle
    /\ ft_idle
    /\ unit_idle

NextEpidoc ==
    \/ process_folder_file
    \/ process_file_divide_document
    \/ process_file_introduction
    \/ process_file_title
    \/ process_file_line
    \/ process_file_footnotes
    \/ process_file_section_next
    \/ process_file_unit
    \/ process_file_aphorism_next
    \/ process_file_commentary_next
    \/ process_folder_next
    \/ process_folder_return
    \/ NextEpidocFootnotes

SpecEpidoc == InitEpidoc /\ [][NextEpidoc]_vars

(***************************************************************************)
(* Reading the main-text XML back.                                         *)
(***************************************************************************)
Indent == repeat(XML_OSS, XML_N_OFFSET)

AnchorHead == Indent \o <<"<app", " ", "n=\"">>

\* the line opens a main-text anchor '<app n="..'
IsAnchorLine(l) == MatchAt(l, AnchorHead, 1)

\* the number n of an anchor line: the digits after '<app n="'
AnchorNumber(l) ==
    LET rest == SubSeq(l, Len(AnchorHead) + 1, Len(l))
        stop == Min({i \in 1..Len(rest) : ~IsDigit(rest[i])})
    IN  ParseInt(SubSeq(rest, 1, stop - 1))

\* the numbers of the anchors of a list of lines, in order
RECURSIVE AnchorNumbers(_)
AnchorNumbers(lines) ==
    IF lines = <<>> THEN <<>>
    ELSE (IF IsAnchorLine(Head(lines)) THEN <<AnchorNumber(Head(lines))>>
          ELSE <<>>) \o AnchorNumbers(Tail(lines))

\* the lines joined again with line breaks, indentation removed
RECURSIVE Unlines(_)
Unlines(lines) ==
    IF lines = <<>> THEN <<>>
    ELSE SubSeq(Head(lines), Len(Indent) + 1, Len(Head(lines)))
         \o (IF Len(lines) > 1 THEN <<"\n">> ELSE <<>>)
         \o Unlines(Tail(lines))

\* the text inside <rdg>..</rdg> of the last anchor of a list of lines
LastRdgSpan(lines) ==
    LET i == Max({j \in 1..Len(lines) : IsAnchorLine(lines[j])})
        t == Unlines(SubSeq(lines, i, Len(lines)))
        a == find(t, <<"\"><rdg>">>)
        b == rfind(t, <<"</rdg><anchor">>)
    IN  SubSeq(t, a + 1, b - 1)

\* the lines before the last anchor line, from line number from on
LinesBeforeLastAnchor(lines, from) ==
    LET i == Max({j \in 1..Len(lines) : IsAnchorLine(lines[j])})
    IN  SubSeq(lines, from, i - 1)

\* the marker text '*k*'
Marker(k) == <<"*">> \o str(k) \o <<"*">>

Occurs(s, c) == \E i \in 1..Len(s) : s[i] = c

AfterFirst(s, c) == SubSeq(s, Min({i \in 1..Len(s) : s[i] = c}) + 1, Len(s))

BeforeFirst(s, c) == SubSeq(s, 1, Min({i \in 1..Len(s) : s[i] = c}) - 1)

AfterLast(s, c) == SubSeq(s, Max({i \in 1..Len(s) : s[i] = c}) + 1, Len(s))

BeforeLast(s, c) == SubSeq(s, 1, Max({i \in 1..Len(s) : s[i] = c}) - 1)

\* the unflagged text as it is emitted: one stripped line per line
Emitted(text) ==
    [i \in 1..Len(splitlines(text)) |-> Indent \o strip(splitlines(text)[i])]

(***************************************************************************)
(* C1: a call footnotes(line, c) that returns yields a cursor c' >= c;     *)
(* the anchors '<app n=".." ..>' it appended to the main-text list are     *)
(* exactly c' - c many and carry the numbers c, c+1, .., c'-1 in that      *)
(* order.                                                                  *)
(***************************************************************************)
C1_CursorCountsAnchors ==
    pc = "returned" =>
        /\ ret[2] >= arg.cursor
        /\ AnchorNumbers(ret[1]) =
              [i \in 1..(ret[2] - arg.cursor) |-> arg.cursor + i - 1]

C1_Witness ==
    /\ pc = "returned"
    /\ ret[2] = arg.cursor + 2
    /\ Len(AnchorNumbers(ret[1])) = 2


(***************************************************************************)
(* C4 as stated: for every matched marker the span inside <rdg>..</rdg>    *)
(* is the text after the LAST '#' of the text before the marker, and the   *)
(* text before that '#' is emitted unflagged; without '#' the span is the  *)
(* text after the last space.                                              *)
(***************************************************************************)
\* the text between the previous marker (or line start) and the marker
\* matched by the step
TextBeforeMarker ==
    SubSeq(string_to_process, 1,
           Len(string_to_process) - Len(string_to_process')
             - Len(Marker(next_footnote)))

C4_SpanAfterLastHash ==
    [][next_footnote' # next_footnote =>
         IF Occurs(TextBeforeMarker, "#")
         THEN /\ LastRdgSpan(xml_main') = AfterLast(TextBeforeMarker, "#")
              /\ LinesBeforeLastAnchor(xml_main', Len(xml_main) + 1)
                    = Emitted(BeforeLast(TextBeforeMarker, "#"))
         ELSE LastRdgSpan(xml_main') = AfterLast(TextBeforeMarker, " ")]_vars

(***************************************************************************)
(* C4 amended: for every matched marker the span inside <rdg>..</rdg> is   *)
(* the text after the FIRST '#' of the text before the marker (later '#'   *)
(* stay in the span), and the text before that '#' is emitted unflagged;   *)
(* without '#' the span is the text after the last space.                  *)
(***************************************************************************)
C4_SpanAfterFirstHash ==
    [][next_footnote' # next_footnote =>
         IF Occurs(TextBeforeMarker, "#")
         THEN /\ LastRdgSpan(xml_main') = AfterFirst(TextBeforeMarker, "#")
              /\ LinesBeforeLastAnchor(xml_main', Len(xml_main) + 1)
                    = Emitted(BeforeFirst(TextBeforeMarker, "#"))
         ELSE LastRdgSpan(xml_main') = AfterLast(TextBeforeMarker, " ")]_vars

C4_Witness ==
    /\ next_footnote > arg.cursor
    /\ Occurs(base_text, "#")
    /\ Occurs(next_text_for_xml, "a")
    /\ LastRdgSpan(xml_main) = base_text

(***************************************************************************)
(* C5: footnotes raises AnalysisException whenever the text before a       *)
(* matched marker has neither '#' nor ' '; the caller then receives no     *)
(* main-text list and no cursor.                                           *)
(***************************************************************************)
C5_RaisesWithoutBoundary ==
    [][(/\ pc = "footnotes"
        /\ contains(string_to_process, Marker(next_footnote))
        /\ ~Occurs(TextBeforeMarker, "#")
        /\ ~Occurs(TextBeforeMarker, " "))
       => (pc' = "raised" /\ exc' = "AnalysisException" /\ ret' = NoValue)]_vars

C5_Witness ==
    /\ pc = "raised"
    /\ exc = "AnalysisException"
    /\ ret = NoValue
    /\ xml_main # <<>>
    /\ next_footnote > arg.cursor

(***************************************************************************)
(* C6 as stated: with cursor c a marker *k*, k < c, anywhere in the line   *)
(* gets no anchor, stays in the output as literal text and does not move   *)
(* the returned cursor.                                                    *)
(***************************************************************************)
\* number of places where sub occurs in s
Count(s, sub) == Cardinality({i \in 1..Len(s) : MatchAt(s, sub, i)})

\* the occurrence of '*k*' at i shares a '*' with an occurrence of a marker
\* '*j*' with j >= c
SharesStar(s, k, i, c) ==
    \E j \in c..(MaxCursor + MaxTokens) :
        \/ MatchAt(s, Marker(j), i + Len(Marker(k)) - 1)
        \/ MatchAt(s, Marker(j), i - Len(Marker(j)) + 1)

FreeCount(s, k, c) ==
    Cardinality({i \in 1..Len(s) :
                    MatchAt(s, Marker(k), i) /\ ~SharesStar(s, k, i, c)})

C6_StaleMarkerStays ==
    pc = "returned" =>
        \A k \in 1..(arg.cursor - 1) :
            contains(arg.line, Marker(k)) =>
                /\ \A i \in 1..Len(AnchorNumbers(ret[1])) :
                       AnchorNumbers(ret[1])[i] # k
                /\ Count(Unlines(ret[1]), Marker(k))
                      = Count(arg.line, Marker(k))
                /\ (~contains(arg.line, Marker(arg.cursor))
                       => ret[2] = arg.cursor)

(***************************************************************************)
(* C6 amended: with cursor c a marker *k*, k < c, gets no anchor and does  *)
(* not move the returned cursor; every occurrence of it that shares no     *)
(* '*' with a marker *j*, j >= c, stays in the output as literal text.     *)
(***************************************************************************)
C6_FreeStaleMarkerStays ==
    pc = "returned" =>
        \A k \in 1..(arg.cursor - 1) :
            contains(arg.line, Marker(k)) =>
                /\ \A i \in 1..Len(AnchorNumbers(ret[1])) :
                       AnchorNumbers(ret[1])[i] # k
                /\ Count(Unlines(ret[1]), Marker(k))
                      >= FreeCount(arg.line, k, arg.cursor)
                /\ (~contains(arg.line, Marker(arg.cursor))
                       => ret[2] = arg.cursor)

C6_Witness ==
    /\ pc = "returned"
    /\ arg.cursor = 2
    /\ ret[2] = 3
    /\ FreeCount(arg.line, 1, 2) >= 1
    /\ Count(Unlines(ret[1]), Marker(1)) >= 1


(***************************************************************************)
(* Reading a line and the result of references back.                       *)
(***************************************************************************)
\* the bracket structure of a line, read from the left: the bodies of the
\* references '[body]', the texts outside them, and whether every '[' read
\* was closed
RECURSIVE RefScan(_)
RefScan(s) ==
    IF ~Occurs(s, "[")
    THEN [bodies |-> <<>>, texts |-> <<s>>, closed |-> TRUE]
    ELSE LET t == BeforeFirst(s, "[")
             a == AfterFirst(s, "[")
         IN  IF ~Occurs(a, "]")
             THEN [bodies |-> <<>>, texts |-> <<t>>, closed |-> FALSE]
             ELSE LET r == RefScan(AfterFirst(a, "]"))
                  IN  [bodies |-> <<BeforeFirst(a, "]")>> \o r.bodies,
                       texts  |-> <<t>> \o r.texts,
                       closed |-> r.closed]

\* every reference of the line is '[W L]': closed, with a space inside
WellFormedLine(s) ==
    /\ RefScan(s).closed
    /\ \A k \in 1..Len(RefScan(s).bodies) : Occurs(RefScan(s).bodies[k], " ")

\* some '[' of the line has no ']' after it
Unclosed(s) ==
    \E i \in 1..Len(s) : s[i] = "[" /\ \A j \in (i + 1)..Len(s) : s[j] # "]"

\* some reference body of the line has no space
BodyWithoutSpace(s) ==
    \E k \in 1..Len(RefScan(s).bodies) : ~Occurs(RefScan(s).bodies[k], " ")

\* the locus a reference body stands for: <<W, L>>
ExpectedLocus(body) ==
    <<strip(BeforeFirst(body, " ")), strip(AfterFirst(body, " "))>>

\* the result cut at its locus elements: the <<target, content>> of each
\* '<locus target="..">..</locus>' and the segments around them
RECURSIVE ResScan(_)
ResScan(r) ==
    IF ~Occurs(r, "<locus")
    THEN [loci |-> <<>>, segs |-> <<r>>]
    ELSE LET a     == AfterFirst(r, "<locus")
             inner == BeforeFirst(a, "</locus>")
             attr  == BeforeFirst(inner, "\">")
             rr    == ResScan(AfterFirst(a, "</locus>"))
         IN  [loci |-> <<IF MatchAt(attr, <<" ", "target=\"">>, 1)
                         THEN <<SubSeq(attr, 3, Len(attr)),
                                AfterFirst(inner, "\">")>>
                         ELSE <<"malformed">>>> \o rr.loci,
              segs |-> <<BeforeFirst(r, "<locus")>> \o rr.segs]

\* segment i of n without the line breaks inserted next to the locus
\* elements: one after the text that precedes an element, one before
\* whatever follows an element
WithoutBreaks(seg, i, n) ==
    LET dropFirst == IF i > 1 /\ seg # <<>>
                     THEN (IF Head(seg) = "\n" THEN Tail(seg)
                           ELSE <<"no break">>)
                     ELSE IF i > 1 /\ i < n THEN <<"no break">> ELSE seg
    IN  IF i < n /\ dropFirst # <<>>
        THEN (IF dropFirst[Len(dropFirst)] = "\n"
              THEN SubSeq(dropFirst, 1, Len(dropFirst) - 1)
              ELSE <<"no break">>)
        ELSE dropFirst

IsText(x) == x # None /\ x # <<>>

(***************************************************************************)
(* C7: for a (non-empty) line with N well-formed references '[W L]',       *)
(* references returns a string with exactly N substitutions                *)
(* '<locus target="W">L</locus>' in the order of the references (W the     *)
(* trimmed text before the first space of the body, L the trimmed rest),   *)
(* and removing them with the line breaks inserted around them gives back  *)
(* the texts outside the brackets, unchanged and in order.                 *)
(***************************************************************************)
C7_ReferenceRoundTrip ==
    (IsText(arg.line) /\ WellFormedLine(arg.line)) =>
        /\ pc # "raised"
        /\ pc = "returned" =>
              LET in  == RefScan(arg.line)
                  out == ResScan(ret)
              IN  /\ out.loci = [k \in 1..Len(in.bodies) |->
                                    ExpectedLocus(in.bodies[k])]
                  /\ Len(out.segs) = Len(in.texts)
                  /\ \A i \in 1..Len(out.segs) :
                        WithoutBreaks(out.segs[i], i, Len(out.segs))
                           = in.texts[i]

C7_Witness ==
    /\ pc = "returned"
    /\ IsText(arg.line)
    /\ WellFormedLine(arg.line)
    /\ Len(ResScan(ret).loci) = 2
    /\ ResScan(ret).loci[1] # ResScan(ret).loci[2]
    /\ \E i \in 1..3 : RefScan(arg.line).texts[i] = <<"a">>

(***************************************************************************)
(* C8: references raises AnalysisException and returns nothing whenever    *)
(* some '[' of the line has no ']' after it or some reference body has no  *)
(* space, also after well-formed references earlier in the line.           *)
(***************************************************************************)
C8_MalformedRaises ==
    (IsText(arg.line) /\ (Unclosed(arg.line) \/ BodyWithoutSpace(arg.line))) =>
        /\ pc # "returned"
        /\ pc = "raised" => exc = "AnalysisException" /\ ret = NoValue

C8_Witness ==
    /\ pc = "raised"
    /\ exc = "AnalysisException"
    /\ ret = NoValue
    /\ Occurs(result, "</locus>")
    /\ ~Unclosed(arg.line)
    /\ BodyWithoutSpace(arg.line)

(***************************************************************************)
(* Reading a footnote section and the table built from it back.            *)
(***************************************************************************)
\* the section given to the Footnotes object is a string or a list of lines
IsSection(f) == f.type \in {"str", "list"}

\* the lines of the section
SectionLines(f) == IF f.type = "str" THEN splitlines(f.val) ELSE f.val

\* the line starts with a marker *k*, k a number
HasMarker(l) ==
    /\ Len(split(l, <<"*">>)) >= 3
    /\ split(l, <<"*">>)[1] = <<>>
    /\ split(l, <<"*">>)[2] # <<>>
    /\ \A i \in 1..Len(split(l, <<"*">>)[2]) : IsDigit(split(l, <<"*">>)[2][i])

\* the number stated in the marker of the line
StatedNumber(l) == ParseInt(split(l, <<"*">>)[2])

\* the keys of a table
Keys(d) == {d[i].key : i \in 1..Len(d)}

(***************************************************************************)
(* C9: if _dictionary succeeds on a section of N lines, the keys of the    *)
(* table are exactly 1..N: every k in 1..N is present, there is no gap,    *)
(* and no line was lost to a number used twice.                            *)
(***************************************************************************)
C9_KeysAreOneToN ==
    (pc = "returned" /\ IsSection(arg.footnotes)) =>
        /\ footnotes.type = "dict"
        /\ Keys(footnotes.val) = 1..Len(SectionLines(arg.footnotes))
        /\ Len(footnotes.val) = Len(SectionLines(arg.footnotes))

(***************************************************************************)
(* C10: _dictionary raises FootnotesException whenever the number stated   *)
(* in the marker of the last line differs from the number of lines, and    *)
(* accepts a section only when the two are equal.                          *)
(***************************************************************************)
C10_LastNumberIsLineCount ==
    LET lines == SectionLines(arg.footnotes)
    IN  /\ ( /\ pc \in {"returned", "raised"}
             /\ IsSection(arg.footnotes)
             /\ lines # <<>>
             /\ HasMarker(lines[Len(lines)])
             /\ StatedNumber(lines[Len(lines)]) # Len(lines) ) =>
                 (pc = "raised" /\ exc = "FootnotesException")
        /\ (pc = "returned" /\ IsSection(arg.footnotes)) =>
                 /\ lines # <<>>
                 /\ HasMarker(lines[Len(lines)])
                 /\ StatedNumber(lines[Len(lines)]) = Len(lines)

(***************************************************************************)
(* Reading a document and the two XML streams back.                        *)
(***************************************************************************)
\* the document before its footnote section, which starts at the last '*1*'
MainText(doc) == SubSeq(doc, 1, rfind(doc, Marker(1)) - 1)

\* the footnote section of the document
FootnoteSection(doc) == SubSeq(doc, rfind(doc, Marker(1)), Len(doc))

\* how many of the markers *k*, *k+1*, .. the text holds in this order
RECURSIVE MarkersInOrder(_, _)
MarkersInOrder(s, k) ==
    IF contains(s, Marker(k))
    THEN 1 + MarkersInOrder(
                 SubSeq(s, find(s, Marker(k)) + Len(Marker(k)), Len(s)), k + 1)
    ELSE 0

\* N: the main text holds the markers *1*..*N* in source order
MarkerCount(doc) == MarkersInOrder(MainText(doc), 1)

\* a title, the numeration of the first aphorism, the markers *1*..*N* and
\* nothing else with a '*' in the main text, each after a '#', and a
\* footnote section of the N lines *1*.. to *N*..
WellFormedDocument(doc) ==
    /\ rfind(doc, Marker(1)) # find(doc, Marker(1))
    /\ MarkerCount(doc) >= 1
    /\ Count(MainText(doc), <<"*">>) = 2 * MarkerCount(doc)
    /\ Count(MainText(doc), <<"#">>) = MarkerCount(doc)
    /\ contains(MainText(doc), <<"\n", "1", ".", "\n">>)
    /\ ~MatchAt(doc, <<"\n", "1", ".", "\n">>, 1)
    /\ Len(splitlines(FootnoteSection(doc))) = MarkerCount(doc)
    /\ \A k \in 1..MarkerCount(doc) :
          /\ HasMarker(splitlines(FootnoteSection(doc))[k])
          /\ StatedNumber(splitlines(FootnoteSection(doc))[k]) = k

\* main has ended: it returned or an exception left it
MainEnded == frame # "none" /\ pc \in {"done", "raised"}

\* the line opens an apparatus block '<app from="#begin_fn..'
IsAppLine(l) == MatchAt(l, <<"<app", " ", "from=\"#begin_fn">>, 1)

\* the number of the block an apparatus line opens
AppNumber(l) ==
    LET rest == SubSeq(l, 4, Len(l))
        stop == Min({i \in 1..Len(rest) : ~IsDigit(rest[i])})
    IN  ParseInt(SubSeq(rest, 1, stop - 1))

\* the numbers of the blocks of the apparatus XML, in order
RECURSIVE AppNumbers(_)
AppNumbers(lines) ==
    IF lines = <<>> THEN <<>>
    ELSE (IF IsAppLine(Head(lines)) THEN <<AppNumber(Head(lines))>>
          ELSE <<>>) \o AppNumbers(Tail(lines))

\* no number twice
Injective(ns) == \A i, j \in 1..Len(ns) : ns[i] = ns[j] => i = j

Range(ns) == {ns[i] : i \in 1..Len(ns)}

(***************************************************************************)
(* C2: main threads one footnote cursor, starting at 1, through the        *)
(* introduction, the title and every aphorism and commentary line: for a   *)
(* document whose main text holds the markers *1*..*N* in source order,    *)
(* main ends with the cursor at N+1.                                       *)
(***************************************************************************)
C2_CursorThreaded ==
    (MainEnded /\ WellFormedDocument(arg.text)) =>
        /\ exc = NoExc
        /\ _next_footnote = MarkerCount(arg.text) + 1

BeginsWithItsMarker(lines, k) ==
    /\ HasMarker(lines[k])
    /\ StatedNumber(lines[k]) = k

C11_LinesBeginWithTheirMarker ==
    LET lines == SectionLines(arg.footnotes)
    IN  ( /\ pc \in {"returned", "raised"}
          /\ IsSection(arg.footnotes)
          /\ \E k \in 1..Len(lines) : ~BeginsWithItsMarker(lines, k) ) =>
              (pc = "raised" /\ exc = "FootnotesException")

(***************************************************************************)
(* C12: _dictionary raises FootnotesException for the empty string, the    *)
(* empty list and a value that is no string, list or dictionary, and then  *)
(* leaves self.footnotes as it was; a well-formed non-empty string is      *)
(* replaced by an OrderedDict.                                             *)
(***************************************************************************)
\* the empty string, the empty list, or a value of an unsupported type
EmptyOrUnsupported(f) ==
    \/ f.type \notin {"str", "list", "dict"}
    \/ f.type \in {"str", "list"} /\ f.val = <<>>

\* a non-empty string whose lines are '*1*..', '*2*..', .. with no other '*'
WellFormedSection(f) ==
    /\ f.type = "str"
    /\ f.val # <<>>
    /\ \A k \in 1..Len(splitlines(f.val)) :
          /\ BeginsWithItsMarker(splitlines(f.val), k)
          /\ Count(splitlines(f.val)[k], <<"*">>) = 2

C12_EmptyOrUnsupportedRaises ==
    /\ EmptyOrUnsupported(arg.footnotes) =>
          /\ pc # "returned"
          /\ footnotes.type = arg.footnotes.type
          /\ footnotes = arg.footnotes
          /\ pc = "raised" => exc = "FootnotesException"
    /\ (WellFormedSection(arg.footnotes) /\ pc \in {"returned", "raised"}) =>
          /\ pc = "returned"
          /\ footnotes.type = "dict"
          /\ Len(footnotes.val) = Len(splitlines(arg.footnotes.val))

C12_Witness ==
    /\ pc = "raised"
    /\ exc = "FootnotesException"
    /\ arg.footnotes.type = "list"
    /\ arg.footnotes.val = <<>>
    /\ footnotes.type = "list"
    /\ footnotes.val = <<>>

(***************************************************************************)
(* Footnote texts and apparatus lines as the documentation states them     *)
(***************************************************************************)
\* sub occurs in s
Contains(s, sub) ==
    \E i \in 1..(Len(s) - Len(sub) + 1) : SubSeq(s, i, i + Len(sub) - 1) = sub

\* s ends with sub
EndsWith(s, sub) ==
    /\ Len(sub) <= Len(s)
    /\ SubSeq(s, Len(s) - Len(sub) + 1, Len(s)) = sub

\* the grammar of the first test that the text passes
FirstMatch(text) ==
    CASE Contains(text, <<"o", "m", ".">>) -> <<"o", "m", "i", "s", "s", "i", "o", "n">>
      [] ~Contains(text, <<"o", "m", ".">>) /\ Contains(text, <<"a", "d", "d", ".">>) -> <<"a", "d", "d">>
      [] ~Contains(text, <<"o", "m", ".">>) /\ ~Contains(text, <<"a", "d", "d", ".">>)
         /\ Contains(text, <<"c", "o", "r", "r", "e", "x", "i">>) -> <<"c", "o", "r", "r", "e", "x", "i">>
      [] ~Contains(text, <<"o", "m", ".">>) /\ ~Contains(text, <<"a", "d", "d", ".">>)
         /\ ~Contains(text, <<"c", "o", "r", "r", "e", "x", "i">>) /\ Contains(text, <<"c", "o", "n", "i", "e", "c", "i">>)
            -> <<"c", "o", "n", "i", "e", "c", "i">>
      [] OTHER -> <<"s", "t", "a", "n", "d", "a", "r", "d">>

\* n units of four spaces
Spaces(n) == [i \in 1..(4 * n) |-> " "]

\* '<rdg wit="#w">t</rdg>'
RdgLine(w, t) ==
    Spaces(1) \o <<"<rdg", " ", "wit=\"#">> \o w \o <<"\">">> \o t
    \o <<"</rdg>">>

\* '<rdg wit="#w">' that holds '<gap reason="omission"/>' and nothing else
GapRdgLine(w) ==
    Spaces(1) \o <<"<rdg", " ", "wit=\"#">> \o w \o <<"\">">>
    \o <<"\n">> \o Spaces(2) \o <<"<gap", " ", "reason=\"omission\"/>">>
    \o <<"\n">> \o Spaces(1) \o <<"</rdg>">>

\* '<rdg><choice><corr>t</corr></choice></rdg>', the corr a conjecture for
\* conieci
ChoiceLines(r, t) ==
    << Spaces(1) \o <<"<rdg>">>,
       Spaces(2) \o <<"<choice>">>,
       Spaces(3)
           \o (IF r = <<"c", "o", "n", "i", "e", "c", "i">>
               THEN <<"<corr", " ", "type=\"conjecture\">">>
               ELSE <<"<corr>">>)
           \o t \o <<"</corr>">>,
       Spaces(2) \o <<"</choice>">>,
       Spaces(1) \o <<"</rdg>">> >>

\* '<rdg wit="#w"><add reason="add_scribe">a</add></rdg>'
AddLines(w, a) ==
    << Spaces(1) \o <<"<rdg", " ", "wit=\"#">> \o w \o <<"\">">>,
       Spaces(2) \o <<"<add", " ", "reason=\"add_scribe\">">> \o a
           \o <<"</add>">>,
       Spaces(1) \o <<"</rdg>">> >>

\* '<note>text</note>'
NoteLine(text) == Spaces(1) \o <<"<note>">> \o text \o <<"</note>">>

\* 'T ] W1: om. W2'
OmissionForm(t, w1, w2) == t \o <<" ", "]", " ">> \o w1 \o <<":", " ", "o", "m", ".", " ">> \o w2

\* 'T ] correxi: C W1: om. W2', also with conieci
ReasonOmissionForm(t, r, c, w1, w2) ==
    t \o <<" ", "]", " ">> \o r \o <<":", " ">> \o c \o <<" ">> \o w1 \o <<":", " ", "o", "m", ".", " ">> \o w2

\* 'T ] k A W1', k one of 'add.', 'correxi:', 'conieci:'
SingleForm(t, k, a, w1) == t \o <<" ", "]", " ">> \o k \o <<" ">> \o a \o <<" ">> \o w1

\* 'T ] k A W1, W2'
SharedForm(t, k, a, w1, w2) ==
    t \o <<" ", "]", " ">> \o k \o <<" ">> \o a \o <<" ">> \o w1 \o <<",", " ">> \o w2

\* 'T ] k A W1: B W2'
DivergentForm(t, k, a, w1, b, w2) ==
    t \o <<" ", "]", " ">> \o k \o <<" ">> \o a \o <<" ">> \o w1 \o <<":", " ">> \o b \o <<" ">> \o w2

\* 'T ] W1: U W2'
StandardForm(t, w1, u, w2) == t \o <<" ", "]", " ">> \o w1 \o <<":", " ">> \o u \o <<" ">> \o w2

\* the editorial reasons
Reasons == {<<"c", "o", "r", "r", "e", "x", "i">>, <<"c", "o", "n", "i", "e", "c", "i">>}

C14_OmissionTwoReadings ==
    \A i \in DOMAIN calls :
    \A t \in FormTexts : \A w1 \in FormWitnesses : \A w2 \in FormWitnesses :
        (footnote = OmissionForm(t, w1, w2) /\ calls[i].method = <<"o", "m", "i", "s", "s", "i", "o", "n">>)
        => /\ calls[i].exc = NoExc
           /\ calls[i].appended = <<RdgLine(w1, t), GapRdgLine(w2)>>

C14_Witness ==
    /\ calls # <<>>
    /\ footnote = OmissionForm(<<"t", " ", "u">>, <<"V">>, <<"W">>)
    /\ calls[1].method = <<"o", "m", "i", "s", "s", "i", "o", "n">>
    /\ calls[1].appended = <<RdgLine(<<"V">>, <<"t", " ", "u">>), GapRdgLine(<<"W">>)>>

(***************************************************************************)
(* C15: for a footnote 'T ] correxi: C W1: om. W2' or 'T ] conieci: C W1:  *)
(* om. W2', omission appends the choice block with T (a conjecture for     *)
(* conieci), then '<rdg wit="#W1">C</rdg>' with the words of C joined by   *)
(* single spaces, then the gap reading of W2; without the reason there is  *)
(* no choice block.                                                        *)
(***************************************************************************)
C15_OmissionWithReason ==
    \A i \in DOMAIN calls :
    \A t \in FormTexts : \A w1 \in FormWitnesses : \A w2 \in FormWitnesses :
        /\ \A r \in Reasons : \A c \in FormReadings :
              ( /\ footnote = ReasonOmissionForm(t, r, c, w1, w2)
                /\ calls[i].method = <<"o", "m", "i", "s", "s", "i", "o", "n">> )
              => /\ calls[i].exc = NoExc
                 /\ calls[i].appended =
                        ChoiceLines(r, t)
                        \o <<RdgLine(w1, c), GapRdgLine(w2)>>
        /\ (footnote = OmissionForm(t, w1, w2)
            /\ calls[i].method = <<"o", "m", "i", "s", "s", "i", "o", "n">>)
           => \A k \in DOMAIN calls[i].appended :
                  ~Contains(calls[i].appended[k], <<"<choice>">>)

C15_Witness ==
    /\ calls # <<>>
    /\ footnote = ReasonOmissionForm(<<"t">>, <<"c", "o", "n", "i", "e", "c", "i">>, <<"c", " ", "d">>, <<"V">>, <<"W">>)
    /\ calls[1].method = <<"o", "m", "i", "s", "s", "i", "o", "n">>
    /\ Len(calls[1].appended) = 7
    /\ calls[1].appended[6] = RdgLine(<<"V">>, <<"c", " ", "d">>)

(***************************************************************************)
(* C16: for an addition, correction('add') appends one block '<rdg         *)
(* wit="#W"><add reason="add_scribe">text</add></rdg>' per witness, in     *)
(* the order of the footnote: (W1, A) for 'T ] add. A W1'; (W1, A) and     *)
(* (W2, A) for 'T ] add. A W1, W2'; (W1, A) and (W2, B) for 'T ] add. A    *)
(* W1: B W2'; T is not in the output.                                      *)
(***************************************************************************)
C16_AdditionBlocks ==
    \A i \in DOMAIN calls :
    \A t \in FormTexts : \A a \in FormReadings : \A w1 \in FormWitnesses :
        /\ (footnote = SingleForm(t, <<"a", "d", "d", ".">>, a, w1)
            /\ calls[i].method = <<"a", "d", "d">>)
           => /\ calls[i].exc = NoExc
              /\ calls[i].appended = AddLines(w1, a)
        /\ \A w2 \in FormWitnesses :
              /\ (footnote = SharedForm(t, <<"a", "d", "d", ".">>, a, w1, w2)
                  /\ calls[i].method = <<"a", "d", "d">>)
                 => /\ calls[i].exc = NoExc
                    /\ calls[i].appended = AddLines(w1, a) \o AddLines(w2, a)
              /\ \A b \in FormReadings :
                    (footnote = DivergentForm(t, <<"a", "d", "d", ".">>, a, w1, b, w2)
                     /\ calls[i].method = <<"a", "d", "d">>)
                    => /\ calls[i].exc = NoExc
                       /\ calls[i].appended =
                              AddLines(w1, a) \o AddLines(w2, b)

C16_Witness ==
    /\ calls # <<>>
    /\ footnote = DivergentForm(<<"t", " ", "u">>, <<"a", "d", "d", ".">>, <<"c">>, <<"V">>, <<"c", " ", "d">>, <<"W">>)
    /\ calls[1].method = <<"a", "d", "d">>
    /\ calls[1].appended = AddLines(<<"V">>, <<"c">>) \o AddLines(<<"W">>, <<"c", " ", "d">>)

(***************************************************************************)
(* C17: for a correxi or conieci footnote, correction appends first one    *)
(* choice block with the text T before ']' (a conjecture if and only if    *)
(* the kind is conieci), then one '<rdg wit="#W">reading</rdg>' per        *)
(* witness: (W1, A), (W2, B) for 'T ] correxi: A W1: B W2' and (W1, A),    *)
(* (W2, A) for 'T ] conieci: A W1, W2'.                                    *)
(***************************************************************************)
C17_CorrectionReadings ==
    \A i \in DOMAIN calls :
    \A r \in Reasons : \A t \in FormTexts : \A a \in FormReadings :
    \A w1 \in FormWitnesses : \A w2 \in FormWitnesses :
        /\ (footnote = SharedForm(t, r \o <<":">>, a, w1, w2)
            /\ calls[i].method = r)
           => /\ calls[i].exc = NoExc
              /\ calls[i].appended =
                     ChoiceLines(r, t) \o <<RdgLine(w1, a), RdgLine(w2, a)>>
        /\ \A b \in FormReadings :
              (footnote = DivergentForm(t, r \o <<":">>, a, w1, b, w2)
               /\ calls[i].method = r)
              => /\ calls[i].exc = NoExc
                 /\ calls[i].appended =
                        ChoiceLines(r, t)
                        \o <<RdgLine(w1, a), RdgLine(w2, b)>>

C17_Witness ==
    /\ calls # <<>>
    /\ footnote = SharedForm(<<"t">>, <<"c", "o", "n", "i", "e", "c", "i", ":">>, <<"c", " ", "d">>, <<"V">>, <<"W">>)
    /\ calls[1].method = <<"c", "o", "n", "i", "e", "c", "i">>
    /\ calls[1].appended =
           ChoiceLines(<<"c", "o", "n", "i", "e", "c", "i">>, <<"t">>)
           \o <<RdgLine(<<"V">>, <<"c", " ", "d">>), RdgLine(<<"W">>, <<"c", " ", "d">>)>>

(***************************************************************************)
(* C18: for a standard footnote 'T ] W1: U W2', correction('standard')     *)
(* appends exactly '<rdg wit="#W1">T</rdg>' and '<rdg wit="#W2">U</rdg>',  *)
(* in this order.                                                          *)
(***************************************************************************)
C18_StandardTwoReadings ==
    \A i \in DOMAIN calls :
    \A t \in FormTexts : \A u \in FormReadings :
    \A w1 \in FormWitnesses : \A w2 \in FormWitnesses :
        (footnote = StandardForm(t, w1, u, w2)
         /\ calls[i].method = <<"s", "t", "a", "n", "d", "a", "r", "d">>)
        => /\ calls[i].exc = NoExc
           /\ calls[i].appended = <<RdgLine(w1, t), RdgLine(w2, u)>>

C18_Witness ==
    /\ calls # <<>>
    /\ footnote = StandardForm(<<"t", " ", "u">>, <<"V">>, <<"c", " ", "d">>, <<"W">>)
    /\ calls[1].method = <<"s", "t", "a", "n", "d", "a", "r", "d">>
    /\ calls[1].appended = <<RdgLine(<<"V">>, <<"t", " ", "u">>), RdgLine(<<"W">>, <<"c", " ", "d">>)>>

(***************************************************************************)
(* C19: for a footnote text that does not conform to its grammar (no ']',  *)
(* nothing after the connective, an omission whose 'om.' is not a word of  *)
(* its own), omission and correction raise nothing and leave in self.xml   *)
(* exactly the line '<note>text</note>'.                                   *)
(***************************************************************************)
\* the text has no ']', or ends with its connective, or holds 'om.' only
\* inside a longer word
Nonconforming(text) ==
    \/ ~Contains(text, <<"]">>)
    \/ \E k \in {<<"a", "d", "d", ".">>, <<"c", "o", "r", "r", "e", "x", "i", ":">>, <<"c", "o", "n", "i", "e", "c", "i", ":">>} : EndsWith(strip(text), k)
    \/ /\ Contains(text, <<"o", "m", ".">>)
       /\ <<"o", "m", ".">> \notin Range(split(text, <<" ">>))

C19_NonconformingLeavesOneNote ==
    \A i \in DOMAIN calls :
        Nonconforming(footnote)
        => /\ calls[i].exc = NoExc
           /\ calls[i].xml = <<NoteLine(footnote)>>

(***************************************************************************)
(* C20: classifying and rendering the same footnote text twice, on the     *)
(* same Footnote object or on two objects made with the default            *)
(* arguments, gives the same d_footnote and the same apparatus lines in    *)
(* self.xml both times.                                                    *)
(***************************************************************************)
C20_SameTextSameResult ==
    \A i \in DOMAIN calls : \A j \in DOMAIN calls :
        /\ calls[i].exc = calls[j].exc
        /\ DOMAIN calls[i].d_footnote = DOMAIN calls[j].d_footnote
        /\ calls[i].d_footnote = calls[j].d_footnote
        /\ calls[i].xml = calls[j].xml

(***************************************************************************)
(* C21: verification returns without raising for every string footnote     *)
(* and integer number, logs every violation it detects in a message that   *)
(* names the number of the footnote, goes on with the later checks after   *)
(* a violation, and changes neither self.footnote, self.xml nor            *)
(* self.d_footnote.                                                        *)
(***************************************************************************)
\* s begins with sub
StartsWith(s, sub) == Len(sub) <= Len(s) /\ SubSeq(s, 1, Len(sub)) = sub

\* what follows the first ']' of the text
ClauseAfterBracket(text) == AfterFirst(text, "]")

\* what the checks of verification have to say about the text
Violations(text) ==
    {": should contain two \"*\" characters" : x \in
        {y \in {1} : Count(text, <<"*">>) # 0}}
    \cup {": should contain one \"]\" character" : x \in
        {y \in {1} : Count(text, <<"]">>) # 1}}
    \cup {": contains \"codd\"" : x \in
        {y \in {1} : Contains(text, <<"c", "o", "d", "d">>)}}
    \cup {": contains \";\"" : x \in
        {y \in {1} : Contains(text, <<";">>)}}
    \cup {": addition must contain \" add. \" after \"]\"" : x \in
        {y \in {1} : /\ FirstMatch(text) = <<"a", "d", "d">>
                     /\ ~(/\ Occurs(text, "]")
                          /\ StartsWith(ClauseAfterBracket(text), <<" ", "a", "d", "d", ".", " ">>))}}
    \cup {": standard variation should contain one \":\" character" : x \in
        {y \in {1} : /\ FirstMatch(text) = <<"s", "t", "a", "n", "d", "a", "r", "d">>
                     /\ Count(text, <<":">>) # 1}}

\* the message is the report of a violation
IsReport(m) == m[1] = "Error in footnote "

Connective(kind) ==
    CASE kind = <<"a", "d", "d">> -> <<" ", "a", "d", "d", ".", " ">>
      [] kind = <<"c", "o", "r", "r", "e", "x", "i">> -> <<" ", "c", "o", "r", "r", "e", "x", "i", ":", " ">>
      [] kind = <<"c", "o", "n", "i", "e", "c", "i">> -> <<" ", "c", "o", "n", "i", "e", "c", "i", ":", " ">>

ConnectiveReport(kind) ==
    CASE kind = <<"a", "d", "d">> -> ": addition must contain \" add. \" after \"]\""
      [] kind = <<"c", "o", "r", "r", "e", "x", "i">> ->
             ": correxi must contain \" correxi: \" after \"]\""
      [] kind = <<"c", "o", "n", "i", "e", "c", "i">> ->
             ": conieci must contain \" conieci: \" after \"]\""

C23_WrongConnectiveReported ==
    \A i \in DOMAIN calls :
        ( /\ FirstMatch(arg.footnote) \in {<<"a", "d", "d">>, <<"c", "o", "r", "r", "e", "x", "i">>, <<"c", "o", "n", "i", "e", "c", "i">>}
          /\ Occurs(arg.footnote, "]")
          /\ ~StartsWith(ClauseAfterBracket(arg.footnote),
                         Connective(FirstMatch(arg.footnote))) )
        => \E j \in DOMAIN calls[i].log :
               calls[i].log[j] =
                   <<"Error in footnote ">> \o str(arg.n_footnote)
                   \o <<ConnectiveReport(FirstMatch(arg.footnote))>>

(***************************************************************************)
(* C24: in correction (addition, correxi, conieci) every group of the      *)
(* text after the connective, split at ':', yields its readings: 'A1 W1:   *)
(* A2 W2: A3 W3' gives the readings (W1, A1), (W2, A2), (W3, A3) in order; *)
(* no group after the second is dropped.                                   *)
(***************************************************************************)
\* 'T ] k A W1: B W2: C W3'
ThreeGroupForm(t, k, a, w1, b, w2, c, w3) ==
    t \o <<" ", "]", " ">> \o k \o <<" ">> \o a \o <<" ">> \o w1 \o <<":", " ">> \o b \o <<" ">> \o w2
    \o <<":", " ">> \o c \o <<" ">> \o w3

C24_EveryGroupYieldsReadings ==
    \A i \in DOMAIN calls :
    \A t \in FormTexts :
    \A a \in FormReadings : \A b \in FormReadings : \A c \in FormReadings :
    \A w1 \in FormWitnesses : \A w2 \in FormWitnesses :
    \A w3 \in FormWitnesses :
        /\ footnote = ThreeGroupForm(t, <<"a", "d", "d", ".">>, a, w1, b, w2, c, w3)
           => calls[i].appended =
                  AddLines(w1, a) \o AddLines(w2, b) \o AddLines(w3, c)
        /\ \A r \in Reasons :
              footnote = ThreeGroupForm(t, r \o <<":">>, a, w1, b, w2, c, w3)
              => calls[i].appended =
                     ChoiceLines(r, t)
                     \o <<RdgLine(w1, a), RdgLine(w2, b), RdgLine(w3, c)>>

(***************************************************************************)
(* C27: references fails with AnalysisException for every line with        *)
(* unbalanced square brackets: a '[' with no later ']', and a ']' with no  *)
(* earlier unmatched '['.                                                  *)
(***************************************************************************)
\* some ']' of s closes nothing: open is the number of '[' still open
RECURSIVE StrayClose(_, _)
StrayClose(s, open) ==
    IF s = <<>> THEN FALSE
    ELSE IF Head(s) = "[" THEN StrayClose(Tail(s), open + 1)
    ELSE IF Head(s) = "]" THEN open = 0 \/ StrayClose(Tail(s), open - 1)
    ELSE StrayClose(Tail(s), open)

C27_UnbalancedRaises ==
    ( /\ pc \in {"returned", "raised"}
      /\ arg.line # None
      /\ Unclosed(arg.line) \/ StrayClose(arg.line, 0) )
    => (pc = "raised" /\ exc = "AnalysisException")

(***************************************************************************)
(* Reading a scan back: the text still to scan and the passes made.        *)
(***************************************************************************)
\* the call is one of analysis.footnotes
IsFootnotesCall == "cursor" \in DOMAIN arg

\* the text the loop has still to scan
Remaining == IF IsFootnotesCall THEN string_to_process ELSE line

\* the loop is running
Scanning == pc \in {"references", "footnotes"}

\* the call has ended
ScanEnded == pc \in {"returned", "raised"}

\* the passes that went on to another pass: each advanced the cursor or
\* wrote one locus element
PassesRepeated ==
    IF IsFootnotesCall THEN next_footnote - arg.cursor
    ELSE Count(result, <<"<locus">>)

\* the length of the input line
InputLength == IF arg.line = None THEN 0 ELSE Len(arg.line)

(***************************************************************************)
(* C30 as stated: the scanning loops make at most as many passes as the    *)
(* line has characters.  A call that ended without a pass that went on     *)
(* to another made one pass, except references on an empty line or None,   *)
(* which returns before its loop.                                          *)
(***************************************************************************)
C30_PassesAtMostLength ==
    ( /\ ScanEnded
      /\ PassesRepeated = 0
      /\ IsFootnotesCall \/ (arg.line # None /\ arg.line # <<>>) )
    => 1 <= InputLength

(***************************************************************************)
(* C30, amended: every call of references and of footnotes ends, by        *)
(* returning or raising; every pass of the loops ends the call or leaves   *)
(* a strictly shorter text to scan; the passes are at most the length of   *)
(* the line, and one pass for an empty line.                               *)
(***************************************************************************)
C30_ScansTerminate ==
    /\ [](PassesRepeated + 1 <= Max({1, InputLength}))
    /\ [][Scanning => (ScanEnded' \/ Len(Remaining') < Len(Remaining))]_vars
    /\ <>ScanEnded

\* a call that made two passes and went on, with text left to scan
C30_Witness ==
    /\ Scanning
    /\ PassesRepeated = 2
    /\ Remaining # <<>>

(***************************************************************************)
(* Reading the table of a Footnotes object and its apparatus list back.    *)
(***************************************************************************)
\* the footnote texts of the standard forms: a variation, an omission, a
\* correction, a conjecture, an addition
WellFormedFootnote(text) ==
    \E t \in FormTexts, w1 \in FormWitnesses, w2 \in FormWitnesses,
       c \in FormReadings :
        \/ text = StandardForm(t, w1, c, w2)
        \/ text = OmissionForm(t, w1, w2)
        \/ \E k \in {<<"a", "d", "d", ".">>, <<"c", "o", "r", "r", "e", "x", "i", ":">>, <<"c", "o", "n", "i", "e", "c", "i", ":">>} :
               text = SingleForm(t, k, c, w1)

\* xml_app has run on the table of the Footnotes object of main
XmlAppEnded ==
    /\ frame = "treat_footnotes"
    /\ footnotes.type = "dict"
    /\ pc \in {"raised", "main_save_xml_app"}

\* the lines of the list that close a block
CloseLines(lines) == {i \in 1..Len(lines) : lines[i] = <<"</app>">>}

(***************************************************************************)
(* C26: for a table of N well-formed footnotes xml_app ends without an     *)
(* exception and leaves N blocks in the apparatus list, one for each       *)
(* number of the table in the order of the table, each opened by its       *)
(* '<app from="#begin_fn<n>" to="#end_fn<n>">' and closed by '</app>'      *)
(* before the next one opens.                                              *)
(***************************************************************************)
C26_XmlAppCompletes ==
    ( /\ XmlAppEnded
      /\ footnotes.val # <<>>
      /\ \A i \in 1..Len(footnotes.val) :
             WellFormedFootnote(footnotes.val[i].value) )
    => /\ exc = NoExc
       /\ AppNumbers(_xml_app)
              = [i \in 1..Len(footnotes.val) |-> footnotes.val[i].key]
       /\ Cardinality(CloseLines(_xml_app)) = Len(footnotes.val)
       /\ \A i, j \in 1..Len(_xml_app) :
              (i < j /\ IsAppLine(_xml_app[i]) /\ IsAppLine(_xml_app[j]))
              => \E k \in CloseLines(_xml_app) : i < k /\ k < j

(***************************************************************************)
(* The loop of main over the units of a document                           *)
(***************************************************************************)
\* main has ended, with the loop finished or with an exception
UnitsEnded == frame = "main" /\ pc \in {"done", "raised"}

\* a line of the unit raises in references: a '[' without a ']' after it,
\* or a reference without a space
MalformedUnit(u) == Unclosed(u) \/ BodyWithoutSpace(u)

\* a unit with an aphorism and without a marker, whose references are
\* well formed
WellFormedUnit(u) ==
    /\ u # <<>>
    /\ u[1] \notin {" ", "\n"}
    /\ ~Occurs(u, "*")
    /\ ~MalformedUnit(u)

\* the units of the document are well formed but for one malformed unit
OneMalformedUnit(units) ==
    \E i \in 1..Len(units) :
        /\ MalformedUnit(units[i])
        /\ \A j \in (1..Len(units)) \ {i} : WellFormedUnit(units[j])

\* the line that opens unit i in the main XML
UnitOpenLine(i) ==
    Spaces(3) \o <<"<div", " ", "n=\"", Digits[i + 1], "\"", " ",
                   "type=\"aphorism_commentary_unit\">">>

\* the element a line of the main XML opens or closes, if any
FirstPiece(l) ==
    LET t == SelectSeq(l, LAMBDA c : c # " ")
    IN  IF t = <<>> THEN "" ELSE t[1]

\* the elements left open after the lines, read on top of the open
\* elements of stack; <<"unbalanced">> when a line closes an element that
\* is not the last one opened
RECURSIVE OpenElements(_, _)
OpenElements(lines, stack) ==
    IF lines = <<>> THEN stack
    ELSE LET t == FirstPiece(Head(lines))
             top == IF stack = <<>> THEN "" ELSE stack[Len(stack)]
             pop == SubSeq(stack, 1, Len(stack) - 1)
         IN  CASE t = "<div" -> OpenElements(Tail(lines), Append(stack, "div"))
               [] t = "<p>" -> OpenElements(Tail(lines), Append(stack, "p"))
               [] t = "</p>" -> IF top = "p"
                                THEN OpenElements(Tail(lines), pop)
                                ELSE <<"unbalanced">>
               [] t = "</div>" -> IF top = "div"
                                  THEN OpenElements(Tail(lines), pop)
                                  ELSE <<"unbalanced">>
               [] OTHER -> OpenElements(Tail(lines), stack)

(***************************************************************************)
(* C22: when one unit of the document is malformed (a line of it raises    *)
(* in references) and the other units are well formed, main ends without   *)
(* an exception and the main XML holds the opening line of every well      *)
(* formed unit, before and after the malformed one.                        *)
(***************************************************************************)
C22_MalformedUnitSkipped ==
    (UnitsEnded /\ OneMalformedUnit(arg.aphorism)) =>
        /\ exc = NoExc
        /\ \A i \in 1..Len(arg.aphorism) :
               WellFormedUnit(arg.aphorism[i]) =>
                   \E j \in 1..Len(xml) : xml[j] = UnitOpenLine(i)

TableLines(t) ==
    IF t.type = "list" THEN {t.val[j] : j \in 1..Len(t.val)}
    ELSE {t.val[j].value : j \in 1..Len(t.val)}

\* the entries number n of the table: the lines that start with '*n*'
EntriesOf(t, n) == {e \in TableLines(t) : StartsWith(e, Marker(n))}

\* the pass of _footnotes at hand finds the marker of next_footnote, with
\* a '#' or a ' ' in the text before it
MarkerMatched ==
    /\ pc = "_footnotes"
    /\ \E i \in 1..Len(string_to_process) :
           /\ MatchAt(string_to_process, Marker(next_footnote), i)
           /\ \A h \in 1..(i - 1) :
                  ~MatchAt(string_to_process, Marker(next_footnote), h)
           /\ \E j \in 1..(i - 1) : string_to_process[j] \in {"#", " "}

(***************************************************************************)
(* C25: a pass of Process._footnotes that matches the marker *n* appends   *)
(* to xml_app the block of the entry of the table whose text starts with   *)
(* '*n*', for a table that is a list of lines or a mapping keyed from 1;   *)
(* when the table has no such entry the call ends with                     *)
(* CommentaryToEpidocException and no block for n.                         *)
(***************************************************************************)
C25_MarkerPairedWithEntry ==
    [][MarkerMatched =>
          IF EntriesOf(epidoc_footnotes, next_footnote) = {}
          THEN /\ pc' = "raised"
               /\ exc' = "CommentaryToEpidocException"
               /\ ret' = NoValue
          ELSE \E e \in EntriesOf(epidoc_footnotes, next_footnote) :
                   fn_xml_app' =
                       Append(fn_xml_app, epidoc_app_open(next_footnote))
                       \o footnote_xml(footnote_text(e, Marker(next_footnote)))
                       \o <<<<"</app>">>>>]_vars

(***************************************************************************)
(* The depth counter of the older converter                                *)
(***************************************************************************)
\* process_file has ended, by returning or by raising
\* CommentaryToEpidocException
FileEnded ==
    /\ pc \in {"process_file_returned", "process_file_raised"}
    /\ exc \in {NoExc, "CommentaryToEpidocException"}

\* the number of blanks a line starts with
LeadingBlanks(l) ==
    Min({i \in 1..(Len(l) + 1) : i = Len(l) + 1 \/ l[i] # " "}) - 1

(***************************************************************************)
(* C28: when process_file has ended, by returning or by raising            *)
(* CommentaryToEpidocException, n_offset has the value the Process object  *)
(* was made with, which it had before the first file; hence the first      *)
(* line of the main XML of every file of the folder, the opening of its    *)
(* introduction or title, is indented by that many offsets.                *)
(***************************************************************************)
C28_OffsetRestored ==
    /\ FileEnded => n_offset = arg.n_offset
    /\ (pc # "_footnotes" /\ section # "none" /\ epidoc_xml_main # <<>>) =>
           LeadingBlanks(epidoc_xml_main[1]) = 4 * arg.n_offset

====
